---- MODULE Spec2Model ----
(***************************************************************************)
(* Model of the document engines of claudine-skills.                       *)
(*                                                                         *)
(* A document is the ordered body of a .docx file: paragraphs and tables   *)
(* interleaved.  A paragraph is a sequence of runs, a run is a text (a     *)
(* sequence of characters) with a formatting descriptor, a table is a grid *)
(* of cells and a cell is a sequence of paragraphs.  Every CLI invocation  *)
(* is one load -> mutate -> save step on the file.                         *)
(*                                                                         *)
(* Optional values (Python None or a value) are sequences of length at     *)
(* most one: <<>> is None and <<v>> is the value v.                        *)
(***************************************************************************)
EXTENDS Integers, Sequences, FiniteSets, TLC

VARIABLES
    file,      \* the document stored at the path: [exists, body]
    before,    \* the document the running command loaded
    args,      \* the arguments of the command that ran
    result,    \* the JSON object the command printed
    visited,   \* the calls of replace_in_paragraph, in call order
    pc,        \* "start" before the command runs, "exit" after it
    stdout,    \* the objects printed on standard output, in print order
    exit_code  \* None while the process runs, then its exit code

vars == <<file, before, args, result, visited, pc, stdout, exit_code>>

(***************************************************************************)
(* Bounds of the model.                                                    *)
(***************************************************************************)
MaxRuns == 3        \* runs per paragraph of the generated documents
MaxRunLen == 2      \* characters per run of the paragraphs of two runs
MaxFindLen == 2     \* characters of the find string
MaxShapeBlocks == 3 \* blocks in the body of the mixed documents of find_replace
MaxTableDim == 2    \* rows and columns of a new table
MaxBlocks == 4      \* blocks in the body of the documents of the insertions
MaxShapes == 3      \* shapes on the first slide of the presentations
MaxUpdates == 2     \* updates in one edit request
MaxPages == 3       \* pages of a PDF file
MaxCells == 3       \* cells of a workbook
MaxCommands == 2    \* commands run one after the other on a file

None == <<>>
Some(v) == <<v>>

(***************************************************************************)
(* Texts.                                                                  *)
(***************************************************************************)
Chars == {"a", "b"}

RECURSIVE SeqsUpTo(_, _)
SeqsUpTo(S, n) ==
    IF n = 0 THEN {<<>>}
    ELSE LET shorter == SeqsUpTo(S, n - 1)
         IN  shorter \cup {Append(s, c) : s \in shorter, c \in S}

\* Python: find in text
Contains(text, find) ==
    \E i \in 0..(Len(text) - Len(find)) : SubSeq(text, i + 1, i + Len(find)) = find

RECURSIVE Interleave(_, _)
Interleave(text, sep) ==
    IF text = <<>> THEN <<>>
    ELSE <<Head(text)>> \o sep \o Interleave(Tail(text), sep)

\* one left-to-right pass over text that puts repl in place of every
\* occurrence of find and continues behind the occurrence
RECURSIVE replace_pass(_, _, _)
replace_pass(text, find, repl) ==
    IF find = <<>> THEN repl \o Interleave(text, repl)
    ELSE IF Len(text) < Len(find) THEN text
    ELSE IF SubSeq(text, 1, Len(find)) = find
         THEN repl \o replace_pass(SubSeq(text, Len(find) + 1, Len(text)), find, repl)
         ELSE <<Head(text)>> \o replace_pass(Tail(text), find, repl)

\* a replacement that scans its own output once more
str_replace_rescan(text, find, repl) ==
    replace_pass(replace_pass(text, find, repl), find, repl)

\* Python: text.replace(find, repl)
str_replace(text, find, repl) == replace_pass(text, find, repl)

\* a count of all occurrences, overlapping ones included
str_count_overlapping(text, find) ==
    Cardinality({i \in 0..(Len(text) - Len(find)) :
                    SubSeq(text, i + 1, i + Len(find)) = find})

\* Python: text.count(find)
RECURSIVE str_count(_, _)
str_count(text, find) ==
    IF find = <<>> THEN Len(text) + 1
    ELSE IF Len(text) < Len(find) THEN 0
    ELSE IF SubSeq(text, 1, Len(find)) = find
         THEN 1 + str_count(SubSeq(text, Len(find) + 1, Len(text)), find)
         ELSE str_count(Tail(text), find)

\* Python truthiness of an optional string and of an optional number
TruthyStr(o) == o # None /\ o[1] # ""
TruthyNum(o) == o # None /\ o[1] # 0

(***************************************************************************)
(* Runs, paragraphs, tables.                                               *)
(***************************************************************************)
Format(b, i, u, n, s) ==
    [bold |-> b, italic |-> i, underline |-> u, font_name |-> n, font_size |-> s]

NoFormat == Format(None, None, None, None, None)

Run(t, f) == [text |-> t, fmt |-> f]

Paragraph(rs) == [kind |-> "p", style |-> "Normal", runs |-> rs]

RECURSIVE ConcatTexts(_)
ConcatTexts(rs) ==
    IF rs = <<>> THEN <<>> ELSE Head(rs).text \o ConcatTexts(Tail(rs))

\* para.text
ParaText(para) == ConcatTexts(para.runs)

\* para.clear()
Clear(para) == [para EXCEPT !.runs = <<>>]

\* para.add_run(text)
AddRun(para, text) == [para EXCEPT !.runs = Append(@, Run(text, NoFormat))]

(***************************************************************************)
(* The documents and the arguments of the find_replace runs.               *)
(***************************************************************************)
AllSet == Format(Some(TRUE), Some(TRUE), Some(TRUE), Some("Arial"), Some(12))

\* the formatting of the first run of a generated paragraph and of its later runs
Formats ==
    {NoFormat, AllSet,
     Format(Some(FALSE), Some(FALSE), Some(FALSE), Some(""), Some(0)),
     Format(Some(TRUE), None, Some(FALSE), Some("Times"), None)}

RunsOf(texts, formats) == {Run(t, f) : t \in texts, f \in formats}

\* the paragraphs of at most n runs with texts from texts
ParasOf(texts, n) ==
    {Paragraph(<<>>)}
        \cup (IF n = 0 THEN {}
              ELSE {Paragraph(<<first>> \o rest) :
                       first \in RunsOf(texts, Formats),
                       rest \in SeqsUpTo(RunsOf(texts, {NoFormat, AllSet}), n - 1)})

\* paragraphs of many short runs and paragraphs of two long runs
ParaSet ==
    ParasOf(SeqsUpTo(Chars, 1), MaxRuns) \cup ParasOf(SeqsUpTo(Chars, MaxRunLen), 2)

\* documents of one paragraph
SingleParaBodies == {<<para>> : para \in ParaSet}

\* the documents of the worked examples
ExampleBodies ==
    { << Paragraph(<< Run(<<"f", "o">>, NoFormat),
                      Run(<<"o", "b", "a", "r">>, AllSet) >>) >>,
      << Paragraph(<< Run(<<"a", "b", "a", "b", "a", "b">>, NoFormat) >>) >>,
      << Paragraph(<< Run(<<"A">>, Format(Some(TRUE), None, None, None, None)),
                      Run(<<"B">>, Format(Some(FALSE), None, None, None, None)) >>) >> }

\* documents that mix paragraphs and tables: a block is a paragraph or a
\* table of rows x cols cells with n paragraphs in every cell
PoolPara(n) ==
    CASE n % 3 = 0 -> Paragraph(<< Run(<<"a">>, NoFormat) >>)
      [] n % 3 = 1 -> Paragraph(<< Run(<<"a">>, AllSet), Run(<<"b">>, NoFormat) >>)
      [] OTHER -> Paragraph(<<>>)

Table(rows, cols, n, seed) ==
    [kind |-> "t",
     rows |-> [r \in 1..rows |-> [c \in 1..cols |->
                  [k \in 1..n |-> PoolPara(seed + r + c + k)]]]]

ShapeKinds == {"P", "T11", "T22", "T122"}

ShapeBlock(k, seed) ==
    CASE k = "P" -> PoolPara(seed)
      [] k = "T11" -> Table(1, 1, 1, seed)
      [] k = "T22" -> Table(2, 2, 1, seed)
      [] OTHER -> Table(1, 2, 2, seed)

ShapedBodies ==
    {[i \in 1..Len(ks) |-> ShapeBlock(ks[i], i + fill)] :
        ks \in SeqsUpTo(ShapeKinds, MaxShapeBlocks), fill \in 0..2}

NoFile == [exists |-> FALSE, body |-> <<>>]

ReplaceFiles ==
    {[exists |-> TRUE, body |-> b] :
        b \in SingleParaBodies \cup ExampleBodies \cup ShapedBodies} \cup {NoFile}

Finds ==
    SeqsUpTo(Chars, MaxFindLen)
        \cup {<<"f", "o", "o", "b", "a", "r">>, <<"A">>, <<"B">>}

\* replace strings: empty, a new character, a character of the texts, a
\* string that contains a find string, a string that ends in a character
\* of the texts
Replaces == {<<>>, <<"X">>, <<"a">>, <<"a", "a">>, <<"b", "a">>}

(***************************************************************************)
(* find_replace (docx_engine.py).                                          *)
(***************************************************************************)
\* the formatting the rewritten run receives from runs_info[0]
FirstRunFormatting(info) ==
    [bold |-> info.bold,
     italic |-> info.italic,
     underline |-> info.underline,
     font_name |-> IF TruthyStr(info.font_name) THEN info.font_name ELSE None,
     font_size |-> IF TruthyNum(info.font_size) THEN info.font_size ELSE None]

\* the paragraph after clear(): one run with new_text if runs_info is not empty
Rewritten(para, runs_info, new_text) ==
    IF runs_info # <<>>
    THEN LET added == AddRun(Clear(para), new_text)
         IN  [added EXCEPT !.runs[1].fmt = FirstRunFormatting(runs_info[1].fmt)]
    ELSE Clear(para)

\* a replacer that looks for find_text in each run on its own
replace_in_paragraph_per_run(para, find_text, replace_text) ==
    LET runs_info == para.runs
        full_text == ConcatTexts(runs_info)
    IN  IF \E k \in 1..Len(runs_info) : Contains(runs_info[k].text, find_text)
        THEN LET new_text == str_replace(full_text, find_text, replace_text)
             IN  [para |-> Rewritten(para, runs_info, new_text),
                  added |-> str_count(full_text, find_text),
                  matched |-> TRUE,
                  new_text |-> new_text]
        ELSE [para |-> para, added |-> 0, matched |-> FALSE, new_text |-> full_text]

\* a replacer without the early returns: it rewrites every paragraph
replace_in_paragraph_unguarded(para, find_text, replace_text) ==
    LET runs_info == para.runs
        full_text == ConcatTexts(runs_info)
        new_text == str_replace(full_text, find_text, replace_text)
    IN  [para |-> Rewritten(para, runs_info, new_text),
         added |-> str_count(full_text, find_text),
         matched |-> Contains(full_text, find_text),
         new_text |-> new_text]

\* one call of replace_in_paragraph: the paragraph it leaves, what it adds to
\* replacements, and the new_text it computed
replace_in_paragraph(para, find_text, replace_text) ==
    LET runs_info == para.runs
        full_text == ConcatTexts(runs_info)
        skip == [para |-> para, added |-> 0, matched |-> FALSE, new_text |-> full_text]
    IN  IF ~Contains(ParaText(para), find_text) THEN skip
        ELSE IF ~Contains(full_text, find_text) THEN skip
        ELSE LET new_text == str_replace(full_text, find_text, replace_text)
             IN  [para |-> Rewritten(para, runs_info, new_text),
                  added |-> str_count(full_text, find_text),
                  matched |-> TRUE,
                  new_text |-> new_text]

Iota(n) == [i \in 1..n |-> i]

RECURSIVE FlatMap(_, _)
FlatMap(F(_), s) ==
    IF s = <<>> THEN <<>> ELSE F(Head(s)) \o FlatMap(F, Tail(s))

\* the positions in the body of the blocks of one kind, in body order
BlocksOfKind(body, k) ==
    FlatMap(LAMBDA i : IF body[i].kind = k THEN <<i>> ELSE <<>>, Iota(Len(body)))

\* doc.paragraphs and doc.tables, as positions in the body
DocParagraphs(body) == BlocksOfKind(body, "p")
DocTables(body) == BlocksOfKind(body, "t")

\* for row in table.rows: for cell in row.cells: for para in cell.paragraphs
TableParagraphs(body, t) ==
    FlatMap(LAMBDA r :
        FlatMap(LAMBDA c :
            [k \in 1..Len(body[t].rows[r][c]) |-> <<t, r, c, k>>],
            Iota(Len(body[t].rows[r]))),
        Iota(Len(body[t].rows)))

\* a traversal in document order: the blocks of the body as they come
VisitOrderOfBody(body) ==
    FlatMap(LAMBDA i : IF body[i].kind = "p" THEN << <<i>> >>
                       ELSE TableParagraphs(body, i),
            Iota(Len(body)))

\* the paragraphs find_replace passes to replace_in_paragraph, in call order:
\* <<i>> is the top-level paragraph at body position i, <<t, r, c, k>> is
\* paragraph k of the cell in row r, column c of the table at body position t
VisitOrder(body) ==
    FlatMap(LAMBDA i : << <<i>> >>, DocParagraphs(body))
        \o FlatMap(LAMBDA t : TableParagraphs(body, t), DocTables(body))

ParaAt(body, addr) ==
    IF Len(addr) = 1 THEN body[addr[1]]
    ELSE body[addr[1]].rows[addr[2]][addr[3]][addr[4]]

SetParaAt(body, addr, para) ==
    IF Len(addr) = 1 THEN [body EXCEPT ![addr[1]] = para]
    ELSE [body EXCEPT ![addr[1]].rows[addr[2]][addr[3]][addr[4]] = para]

\* replacements += ...
AddReplacements(replacements, added) == replacements + added

\* the two loops of find_replace over the paragraphs still to visit
RECURSIVE Walk(_, _, _, _, _, _)
Walk(body, todo, find_text, replace_text, replacements, log) ==
    IF todo = <<>>
    THEN [body |-> body, replacements |-> replacements, visited |-> log]
    ELSE LET addr == Head(todo)
             r == replace_in_paragraph(ParaAt(body, addr), find_text, replace_text)
         IN  Walk(SetParaAt(body, addr, r.para), Tail(todo), find_text, replace_text,
                  AddReplacements(replacements, r.added),
                  Append(log, [addr |-> addr, added |-> r.added,
                               matched |-> r.matched, new_text |-> r.new_text]))

FileNotFound == [status |-> "error", type |-> "FileNotFoundError"]

\* main: a command that returns falls off the end of main (exit code 0), a
\* command that raises reaches the except clause and sys.exit(1)
ExitOfMain(raised) == IF raised THEN Some(1) ELSE Some(0)

\* main of docx_engine prints the returned dict, or the error object of the
\* except clause; an error object is printed by the except clause only
MainPrints(printed) ==
    /\ stdout' = Append(stdout, printed)
    /\ exit_code' = ExitOfMain(printed.status = "error")

FindReplace ==
    /\ pc = "start"
    /\ \E find_text \in Finds, replace_text \in Replaces :
        /\ args' = [command |-> "find_replace", find |-> find_text,
                    replace |-> replace_text]
        /\ IF ~file.exists
           THEN /\ result' = FileNotFound
                /\ UNCHANGED <<file, before, visited>>
           ELSE LET w == Walk(file.body, VisitOrder(file.body), find_text,
                              replace_text, 0, <<>>)
                IN  /\ before' = file
                    /\ file' = [exists |-> TRUE, body |-> w.body]
                    /\ visited' = w.visited
                    /\ result' = [status |-> "success",
                                  replacements |-> w.replacements,
                                  find |-> find_text, replace |-> replace_text]
    /\ MainPrints(result')
    /\ pc' = "exit"

(***************************************************************************)
(* The documents and the arguments of the insertions.                      *)
(***************************************************************************)
\* the --position argument: "end", an integer, a text that is no integer,
\* or no argument at all (add_table)
End == [kind |-> "end"]
Index(n) == [kind |-> "int", n |-> n]
Junk == [kind |-> "text"]
NoPosition == [kind |-> "none"]

Labels == <<"1", "2", "3", "4", "5", "6">>

\* block i of a document of the insertions: a paragraph or a table of one
\* cell, with the text Labels[i]
LabelledBlock(k, i) ==
    IF k = "p" THEN Paragraph(<<Run(<<Labels[i]>>, NoFormat)>>)
    ELSE [kind |-> "t", rows |-> << << <<Paragraph(<<Run(<<Labels[i]>>, NoFormat)>>)>> >> >>]

InsertBodies ==
    {[i \in 1..Len(ks) |-> LabelledBlock(ks[i], i)] : ks \in SeqsUpTo({"p", "t"}, MaxBlocks)}

InsertFiles == {[exists |-> TRUE, body |-> b] : b \in InsertBodies} \cup {NoFile}

PositionInts == (-1..(MaxBlocks + 1)) \cup {99}

ParagraphPositions == {End, Junk} \cup {Index(n) : n \in PositionInts}

TablePositions == {NoPosition, End, Junk} \cup {Index(n) : n \in PositionInts}

\* the --data argument: none, a text that is no JSON, or a list of rows; a
\* row is a list of cell texts, or a value that cannot be iterated
DataSet ==
    {[kind |-> "none"], [kind |-> "invalid"],
     [kind |-> "rows",
      rows |-> <<[iterable |-> TRUE, cells |-> <<<<"x">>, <<"y">>, <<"z">>>>]>>],
     [kind |-> "rows",
      rows |-> <<[iterable |-> TRUE, cells |-> <<<<"x">>>>],
                 [iterable |-> FALSE, cells |-> <<>>],
                 [iterable |-> TRUE, cells |-> <<<<"y">>>>]>>]}

(***************************************************************************)
(* insert_paragraph and add_table (docx_engine.py).                        *)
(***************************************************************************)
KnownStyles == {"Normal", "Heading 1"}

Error(type) == [status |-> "error", type |-> type]

\* the body with block at position i and the blocks from i on one later
InsertAt(body, i, block) ==
    SubSeq(body, 1, i - 1) \o <<block>> \o SubSeq(body, i, Len(body))

\* a new paragraph holds one run when text is not empty
NewParagraph(text) ==
    IF text # <<>> THEN Paragraph(<<Run(text, NoFormat)>>) ELSE Paragraph(<<>>)

\* doc.add_paragraph(text): the paragraph is added at the end of the body
add_paragraph(body, text) == Append(body, NewParagraph(text))

\* doc.paragraphs[k].insert_paragraph_before(text), k counted from 0
insert_paragraph_before(body, k, text) ==
    InsertAt(body, DocParagraphs(body)[k + 1], NewParagraph(text))

\* new_para.style = style inside try/except: an unknown style is ignored
ApplyStyle(body, at, style) ==
    IF style # None /\ style[1] # "" /\ style[1] \in KnownStyles
    THEN [body EXCEPT ![at].style = style[1]]
    ELSE body

\* int(position) clamped to 0..len(doc.paragraphs)
Clamp(n, len) == IF n < 0 THEN 0 ELSE IF n > len THEN len ELSE n

\* the branch of insert_paragraph for an integer position, insert_idx clamped
\* and doc.paragraphs not empty: the new body and the place of the new paragraph
PlaceParagraph(body, insert_idx, text) ==
    IF insert_idx = 0
    THEN [body |-> insert_paragraph_before(body, 0, text),
          at |-> DocParagraphs(body)[1]]
    ELSE [body |-> insert_paragraph_before(body, insert_idx - 1, text),
          at |-> DocParagraphs(body)[insert_idx]]

\* insert_paragraph between load and save: ok is FALSE when it raises
insert_paragraph(body, position, text, style) ==
    IF position.kind = "end"
    THEN LET added == add_paragraph(body, text)
         IN  [ok |-> TRUE,
              body |-> ApplyStyle(added, Len(added), style),
              result |-> [status |-> "success",
                          position |-> Len(DocParagraphs(added)) - 1,
                          text |-> text, style |-> style]]
    ELSE IF position.kind # "int"
    THEN [ok |-> FALSE, body |-> body, result |-> Error("ValueError")]
    ELSE LET insert_idx == Clamp(position.n, Len(DocParagraphs(body)))
         IN  IF DocParagraphs(body) = <<>>
             THEN [ok |-> FALSE, body |-> body, result |-> Error("IndexError")]
             ELSE LET placed == PlaceParagraph(body, insert_idx, text)
                  IN  [ok |-> TRUE,
                       body |-> ApplyStyle(placed.body, placed.at, style),
                       result |-> [status |-> "success", position |-> insert_idx,
                                   text |-> text, style |-> style]]

InsertParagraph ==
    /\ pc = "start"
    /\ \E position \in ParagraphPositions, text \in {<<"n">>, <<>>},
          style \in {None, Some("Heading 1"), Some("Bogus")} :
        /\ args' = [command |-> "insert_paragraph", position |-> position,
                    text |-> text, style |-> style]
        /\ IF ~file.exists
           THEN /\ result' = FileNotFound
                /\ UNCHANGED <<file, before>>
           ELSE LET r == insert_paragraph(file.body, position, text, style)
                IN  /\ before' = file
                    /\ file' = IF r.ok THEN [exists |-> TRUE, body |-> r.body] ELSE file
                    /\ result' = r.result
    /\ UNCHANGED visited
    /\ MainPrints(result')
    /\ pc' = "exit"

\* doc.add_table(rows, cols): a table of empty cells at the end of the body
NewTable(rows, cols) ==
    [kind |-> "t",
     rows |-> [r \in 1..rows |-> [c \in 1..cols |-> <<Paragraph(<<>>)>>]]]

\* parent.insert(index, element) for the last element of the body: it moves
\* before the element that is at position to, and stays when that is itself;
\* at is the position it ends at
MoveLastBefore(body, to) ==
    IF to >= Len(body) THEN [body |-> body, at |-> Len(body)]
    ELSE [body |-> InsertAt(SubSeq(body, 1, Len(body) - 1), to, body[Len(body)]),
          at |-> to]

\* a position parsing without the marker for the beginning: position 0 is
\* treated as "after the first paragraph"
ParsePositionNoMarker(body, position) ==
    LET paragraphs == DocParagraphs(body)
    IN  IF position.kind \in {"none", "end"}
        THEN IF paragraphs = <<>>
             THEN [body |-> add_paragraph(body, <<>>), insert_after_para |-> 0]
             ELSE [body |-> body, insert_after_para |-> Len(paragraphs) - 1]
        ELSE LET pos_idx == Clamp(position.n, Len(paragraphs))
             IN  IF pos_idx - 1 < 0
                 THEN IF paragraphs # <<>>
                      THEN [body |-> body, insert_after_para |-> 0]
                      ELSE [body |-> add_paragraph(body, <<>>), insert_after_para |-> 0]
                 ELSE [body |-> body, insert_after_para |-> pos_idx - 1]

\* the position parsing of add_table: the body (with the paragraph that is
\* added when the document has none) and insert_after_para
ParsePosition(body, position) ==
    LET paragraphs == DocParagraphs(body)
    IN  IF position.kind \in {"none", "end"}
        THEN IF paragraphs = <<>>
             THEN [body |-> add_paragraph(body, <<>>), insert_after_para |-> 0]
             ELSE [body |-> body, insert_after_para |-> Len(paragraphs) - 1]
        ELSE LET pos_idx == Clamp(position.n, Len(paragraphs))
             IN  IF pos_idx - 1 < 0
                 THEN IF paragraphs # <<>>
                      THEN [body |-> body, insert_after_para |-> -1]
                      ELSE [body |-> add_paragraph(body, <<>>), insert_after_para |-> 0]
                 ELSE [body |-> body, insert_after_para |-> pos_idx - 1]

\* a placement that leaves the new table where doc.add_table puts it, at
\* the end of the body
PlaceTableAppended(body, insert_after_para, rows, cols) ==
    [body |-> Append(body, NewTable(rows, cols)), at |-> Len(body) + 1]

\* "Create table at the specified position": the body with the new table
\* and the position of the new table in it
PlaceTable(body, insert_after_para, rows, cols) ==
    LET appended == Append(body, NewTable(rows, cols))
        paragraphs == DocParagraphs(body)
        stays == [body |-> appended, at |-> Len(appended)]
    IN  IF insert_after_para = -1
        THEN IF paragraphs # <<>> THEN MoveLastBefore(appended, paragraphs[1])
             ELSE stays
        ELSE IF insert_after_para >= 0 /\ insert_after_para < Len(paragraphs)
        THEN MoveLastBefore(appended, paragraphs[insert_after_para + 1] + 1)
        ELSE stays

\* cell.text = text
SetCellText(table, r, c, text) ==
    [table EXCEPT !.rows[r][c] = <<Paragraph(<<Run(text, NoFormat)>>)>>]

RECURSIVE FillCells(_, _, _, _, _)
FillCells(table, r, row_data, c, cols) ==
    IF c > Len(row_data) THEN table
    ELSE FillCells(IF c <= cols THEN SetCellText(table, r, c, row_data[c]) ELSE table,
                   r, row_data, c + 1, cols)

\* the loop over table_data; a row that cannot be iterated raises and ends it
RECURSIVE FillRows(_, _, _, _, _)
FillRows(table, table_data, r, rows, cols) ==
    IF r > Len(table_data) THEN table
    ELSE IF ~table_data[r].iterable THEN table
    ELSE FillRows(IF r <= rows THEN FillCells(table, r, table_data[r].cells, 1, cols)
                  ELSE table,
                  table_data, r + 1, rows, cols)

\* "Fill with data if provided", inside try/except
FillTable(table, data, rows, cols) ==
    IF data.kind # "rows" THEN table
    ELSE FillRows(table, data.rows, 1, rows, cols)

\* add_table between load and save: ok is FALSE when it raises
add_table(body, rows, cols, position, data) ==
    IF rows < 1 \/ cols < 1
    THEN [ok |-> FALSE, body |-> body, result |-> Error("ValueError")]
    ELSE IF position.kind = "text"
    THEN [ok |-> FALSE, body |-> body, result |-> Error("ValueError")]
    ELSE LET parsed == ParsePosition(body, position)
             placed == PlaceTable(parsed.body, parsed.insert_after_para, rows, cols)
             filled == [placed.body EXCEPT ![placed.at] = FillTable(@, data, rows, cols)]
         IN  [ok |-> TRUE,
              body |-> filled,
              result |-> [status |-> "success", rows |-> rows, cols |-> cols,
                          table_index |-> Len(DocTables(filled)) - 1]]

AddTable ==
    /\ pc = "start"
    /\ \E rows \in 0..MaxTableDim, cols \in 0..MaxTableDim, position \in TablePositions,
          data \in DataSet :
        /\ args' = [command |-> "add_table", rows |-> rows, cols |-> cols,
                    position |-> position, data |-> data]
        /\ IF ~file.exists
           THEN /\ result' = FileNotFound
                /\ UNCHANGED <<file, before>>
           ELSE LET r == add_table(file.body, rows, cols, position, data)
                IN  /\ before' = file
                    /\ file' = IF r.ok THEN [exists |-> TRUE, body |-> r.body] ELSE file
                    /\ result' = r.result
    /\ UNCHANGED visited
    /\ MainPrints(result')
    /\ pc' = "exit"

(***************************************************************************)
(* A find_replace invocation on a file.                                    *)
(***************************************************************************)
NotRun == [status |-> "none"]

InitFindReplace ==
    /\ file \in ReplaceFiles
    /\ before = NoFile
    /\ args = [command |-> "none"]
    /\ result = NotRun
    /\ visited = <<>>
    /\ pc = "start"
    /\ stdout = <<>>
    /\ exit_code = None

SpecFindReplace == InitFindReplace /\ [][FindReplace]_vars

(***************************************************************************)
(* An insert_paragraph or add_table invocation on a file.                  *)
(***************************************************************************)
InitInsert ==
    /\ file \in InsertFiles
    /\ before = NoFile
    /\ args = [command |-> "none"]
    /\ result = NotRun
    /\ visited = <<>>
    /\ pc = "start"
    /\ stdout = <<>>
    /\ exit_code = None

SpecInsert == InitInsert /\ [][InsertParagraph \/ AddTable]_vars

(***************************************************************************)
(* Reference definitions for the statements about find_replace.            *)
(***************************************************************************)
MatchAt(text, find, i) ==
    /\ i + Len(find) - 1 <= Len(text)
    /\ SubSeq(text, i, i + Len(find) - 1) = find

\* the start positions of the non-overlapping occurrences of find in text,
\* taken leftmost first, looking at positions from..Len(text)+1
RECURSIVE Occurrences(_, _, _)
Occurrences(text, find, from) ==
    LET ms == {i \in from..(Len(text) + 1) : MatchAt(text, find, i)}
    IN  IF ms = {} THEN {}
        ELSE LET m == CHOOSE i \in ms : \A j \in ms : i <= j
                 step == IF find = <<>> THEN 1 ELSE Len(find)
             IN  {m} \cup Occurrences(text, find, m + step)

\* text with the occurrences at the positions occ replaced by repl
RECURSIVE Substituted(_, _, _, _, _)
Substituted(text, find, repl, occ, i) ==
    IF i > Len(text) + 1 THEN <<>>
    ELSE LET covered == \E j \in occ : j <= i /\ i < j + Len(find)
         IN  (IF i \in occ THEN repl ELSE <<>>)
                 \o (IF i <= Len(text) /\ ~covered THEN <<text[i]>> ELSE <<>>)
                 \o Substituted(text, find, repl, occ, i + 1)

ExpectedText(text, find, repl) ==
    Substituted(text, find, repl, Occurrences(text, find, 1), 1)

ExpectedCount(text, find) == Cardinality(Occurrences(text, find, 1))

Replaced == pc = "exit" /\ args.command = "find_replace" /\ result.status = "success"

Visits == 1..Len(visited)
Orig(i) == ParaAt(before.body, visited[i].addr)
Final(i) == ParaAt(file.body, visited[i].addr)
RunTexts(para) == [k \in 1..Len(para.runs) |-> para.runs[k].text]

Foobar == <<"f", "o", "o", "b", "a", "r">>

\* C1: a match is looked for in the concatenation of the run texts, so it is
\* found however the text is split into runs, also across a run boundary
\* (runs "fo", "obar" and find "foobar"), and the paragraph is left as a single
\* run holding the replaced text.
C1_BoundarySpanningMatch ==
    Replaced =>
        \A i \in Visits :
            LET text == ConcatTexts(Orig(i).runs)
            IN  /\ (Len(Orig(i).runs) >= 1 /\ Contains(text, args.find)) =>
                    /\ visited[i].matched
                    /\ RunTexts(Final(i)) = <<ExpectedText(text, args.find, args.replace)>>
                /\ (RunTexts(Orig(i)) = <<<<"f", "o">>, <<"o", "b", "a", "r">>>>
                        /\ args.find = Foobar) =>
                    RunTexts(Final(i)) = <<args.replace>>

\* a match that no single run holds was replaced
C1_Witness ==
    /\ Replaced
    /\ \E i \in Visits :
        /\ visited[i].matched
        /\ args.find = Foobar
        /\ \A k \in 1..Len(Orig(i).runs) : ~Contains(Orig(i).runs[k].text, args.find)
        /\ RunTexts(Final(i)) = <<args.replace>>

\* C2: for every block that matches, new_text is the concatenated run text
\* with every non-overlapping occurrence of find, taken left to right, replaced
\* by replace, and the count added for the block is the number of those
\* occurrences ("ababab", "ab", "X" gives "XXX" and 3).
C2_AllOccurrencesReplaced ==
    Replaced =>
        \A i \in Visits :
            LET text == ConcatTexts(Orig(i).runs)
            IN  /\ visited[i].matched <=> Contains(text, args.find)
                /\ visited[i].matched =>
                    /\ visited[i].new_text = ExpectedText(text, args.find, args.replace)
                    /\ visited[i].added = ExpectedCount(text, args.find)
                    /\ Len(Orig(i).runs) >= 1 => ParaText(Final(i)) = visited[i].new_text
                /\ (text = <<"a", "b", "a", "b", "a", "b">> /\ args.find = <<"a", "b">>
                        /\ args.replace = <<"X">>) =>
                    /\ ParaText(Final(i)) = <<"X", "X", "X">>
                    /\ visited[i].added = 3

\* a block with several occurrences, two of which would overlap, was rewritten
C2_Witness ==
    /\ Replaced
    /\ \E i \in Visits :
        /\ visited[i].matched
        /\ visited[i].added >= 2
        /\ args.find = <<"a", "a">>
        /\ ParaText(Orig(i)) = <<"a", "a", "a", "a">>

\* C3: when find does not occur in a block's text, the block's run list (the
\* number of runs, every run's text and formatting) and its text are left
\* unchanged and 0 is added to the replacement count.
C3_NoMatchUnchanged ==
    Replaced =>
        /\ \A i \in Visits :
            ~Contains(ParaText(Orig(i)), args.find) =>
                /\ Final(i) = Orig(i)
                /\ visited[i].added = 0
        /\ (\A i \in Visits : ~Contains(ParaText(Orig(i)), args.find)) =>
                /\ result.replacements = 0
                /\ file.body = before.body

\* a block of two runs with different formatting did not match
C3_Witness ==
    /\ Replaced
    /\ \E i \in Visits :
        /\ ~visited[i].matched
        /\ Len(Orig(i).runs) = 2
        /\ Orig(i).runs[1].fmt # Orig(i).runs[2].fmt
        /\ Final(i) = Orig(i)

\* C4: after a replacement in a block with at least one run, the single
\* resulting run carries the formatting of the first original run (bold,
\* italic, underline, font name, font size), whatever the later runs carry.
C4_FirstRunFormatting ==
    Replaced =>
        \A i \in Visits :
            (visited[i].matched /\ Len(Orig(i).runs) >= 1) =>
                /\ Len(Final(i).runs) = 1
                /\ Final(i).runs[1].fmt = Orig(i).runs[1].fmt

\* C5: a block rewritten by the replacer ends with exactly one run whose text
\* is new_text; a block that had zero runs becomes one run with no explicit
\* formatting.
C5_RewrittenIsOneRun ==
    Replaced =>
        \A i \in Visits :
            visited[i].matched =>
                /\ Len(Final(i).runs) = 1
                /\ Final(i).runs[1].text = visited[i].new_text
                /\ Orig(i).runs = <<>> => Final(i).runs[1].fmt = NoFormat

RECURSIVE SumAdded(_)
SumAdded(log) == IF log = <<>> THEN 0 ELSE Head(log).added + SumAdded(Tail(log))

\* the paragraphs of a document: top-level ones and those of the table cells
AllParagraphs(body) ==
    {<<i>> : i \in {j \in 1..Len(body) : body[j].kind = "p"}}
        \cup UNION {UNION {UNION {{<<t, r, c, k>> : k \in 1..Len(body[t].rows[r][c])} :
                              c \in 1..Len(body[t].rows[r])} :
                       r \in 1..Len(body[t].rows)} :
                t \in {j \in 1..Len(body) : body[j].kind = "t"}}

RECURSIVE LexLess(_, _)
LexLess(a, b) ==
    /\ a # <<>>
    /\ b # <<>>
    /\ \/ Head(a) < Head(b)
       \/ Head(a) = Head(b) /\ LexLess(Tail(a), Tail(b))

\* a is visited before b
VisitedBefore(a, b) ==
    \/ Len(a) = 1 /\ Len(b) = 4
    \/ Len(a) = Len(b) /\ LexLess(a, b)

\* C7: find_replace visits every top-level paragraph in order, then every
\* table in order, in a table the rows top to bottom, in a row the cells left
\* to right, in a cell the paragraphs in order; the replacements it returns
\* are the sum of the counts of the blocks.
C7_TraversalOrder ==
    Replaced =>
        /\ {visited[i].addr : i \in Visits} = AllParagraphs(before.body)
        /\ \A i, j \in Visits : i < j => VisitedBefore(visited[i].addr, visited[j].addr)
        /\ result.replacements = SumAdded(visited)

\* a table that precedes a paragraph in the document was visited after it,
\* and two cells of two rows had replacements
C7_Witness ==
    /\ Replaced
    /\ \E i, j \in Visits :
        /\ i < j
        /\ Len(visited[i].addr) = 1
        /\ Len(visited[j].addr) = 4
        /\ visited[j].addr[1] < visited[i].addr[1]
    /\ \E i, j \in Visits :
        /\ Len(visited[i].addr) = 4
        /\ Len(visited[j].addr) = 4
        /\ visited[i].addr[2] < visited[j].addr[2]
        /\ visited[i].added > 0
        /\ visited[j].added > 0
    /\ result.replacements >= 3

(***************************************************************************)
(* Statements about insert_paragraph and add_table.                        *)
(***************************************************************************)
Inserted ==
    /\ pc = "exit"
    /\ args.command \in {"insert_paragraph", "add_table"}
    /\ result.status = "success"

ParagraphsOnly(body) == \A i \in 1..Len(body) : body[i].kind = "p"

\* block is the block the command made: a paragraph with the text of the
\* request or a table of the requested size
IsPayload(block) ==
    /\ \A i \in 1..Len(before.body) : before.body[i] # block
    /\ IF args.command = "insert_paragraph"
       THEN block.kind = "p" /\ ParaText(block) = args.text
       ELSE /\ block.kind = "t"
            /\ Len(block.rows) = args.rows
            /\ \A r \in 1..Len(block.rows) : Len(block.rows[r]) = args.cols

\* C8: inserting at an integer target i, clamped into [0, len(sequence)],
\* yields a sequence whose element at position i is the new payload; the
\* elements that were before i keep their positions and those from i on are
\* one position later (stated for a sequence of paragraphs).
C8_PayloadAtIndex ==
    (Inserted /\ args.position.kind = "int"
        /\ before.body # <<>> /\ ParagraphsOnly(before.body)) =>
        LET i == Clamp(args.position.n, Len(before.body))
        IN  /\ Len(file.body) = Len(before.body) + 1
            /\ IsPayload(file.body[i + 1])
            /\ \A j \in 1..i : file.body[j] = before.body[j]
            /\ \A j \in (i + 1)..Len(before.body) : file.body[j + 1] = before.body[j]

\* C9: inserting at an index past the end of the sequence is an append: the
\* result is one longer and the new element is last (length 3 and index 99
\* give length 4).
C9_PastEndAppends ==
    (Inserted /\ args.position.kind = "int"
        /\ before.body # <<>> /\ ParagraphsOnly(before.body)
        /\ args.position.n > Len(before.body)) =>
        /\ Len(file.body) = Len(before.body) + 1
        /\ IsPayload(file.body[Len(file.body)])
        /\ SubSeq(file.body, 1, Len(before.body)) = before.body

\* C10: inserting at index 0 into a non-empty sequence puts the new block
\* before the first existing paragraph and moves nothing else, so [P0, P1]
\* becomes [New, P0, P1], for insert_paragraph and for add_table.
C10_IndexZeroBeforeFirst ==
    (Inserted /\ args.position.kind = "int" /\ args.position.n <= 0
        /\ DocParagraphs(before.body) # <<>>) =>
        LET first == DocParagraphs(before.body)[1]
        IN  /\ IsPayload(file.body[first])
            /\ file.body = SubSeq(before.body, 1, first - 1) \o <<file.body[first]>>
                               \o SubSeq(before.body, first, Len(before.body))
            /\ (Len(before.body) = 2 /\ ParagraphsOnly(before.body)) =>
                    /\ Len(file.body) = 3
                    /\ file.body[1].kind = (IF args.command = "add_table" THEN "t" ELSE "p")
                    /\ file.body[2] = before.body[1]
                    /\ file.body[3] = before.body[2]

\* a table was put at index 0 of a document of two paragraphs
C10_Witness ==
    /\ Inserted
    /\ args.command = "add_table"
    /\ args.position = Index(0)
    /\ Len(before.body) = 2
    /\ ParagraphsOnly(before.body)
    /\ file.body[1].kind = "t"
    /\ SubSeq(file.body, 2, 3) = before.body

\* C11: with target "end" (or, for add_table, no position at all) the new
\* block becomes the last element of the document's top-level sequence of
\* paragraphs and tables, whatever mix of the two the document holds.
C11_EndIsLast ==
    (Inserted /\ args.position.kind \in {"end", "none"}) =>
        /\ Len(file.body) > Len(before.body)
        /\ IsPayload(file.body[Len(file.body)])

\* C12: inserting into a document without paragraphs (only tables, or
\* nothing) never fails: an empty paragraph is made first as the anchor and
\* the payload is placed relative to it, so the empty document and index 0
\* give [sentinel, payload].
C12_NoParagraphsNeverFails ==
    (/\ pc = "exit"
     /\ args.command \in {"insert_paragraph", "add_table"}
     /\ before.exists
     /\ DocParagraphs(before.body) = <<>>
     /\ args.position.kind # "text"
     /\ args.command = "add_table" => (args.rows >= 1 /\ args.cols >= 1)) =>
        /\ result.status = "success"
        /\ (before.body = <<>> /\ args.position = Index(0)) =>
                /\ Len(file.body) = 2
                /\ file.body[1] = Paragraph(<<>>)
                /\ IsPayload(file.body[2])

(***************************************************************************)
(* Presentations (pptx_engine.py).  A presentation is a sequence of        *)
(* slides, a slide is a sequence of shapes with optional notes, and a      *)
(* shape has a name, a vertical offset, possibly a text frame with its     *)
(* text and possibly a placeholder type.                                   *)
(***************************************************************************)
Uppers ==
    <<"A", "B", "C", "D", "E", "F", "G", "H", "I", "J", "K", "L", "M",
      "N", "O", "P", "Q", "R", "S", "T", "U", "V", "W", "X", "Y", "Z">>

Lowers ==
    <<"a", "b", "c", "d", "e", "f", "g", "h", "i", "j", "k", "l", "m",
      "n", "o", "p", "q", "r", "s", "t", "u", "v", "w", "x", "y", "z">>

\* the lower-case letter of every upper-case letter
LowerOf ==
    [c \in {Uppers[i] : i \in 1..Len(Uppers)} |->
        Lowers[CHOOSE i \in 1..Len(Uppers) : Uppers[i] = c]]

\* Python: text.lower()
Lower(text) ==
    [i \in 1..Len(text) |-> IF text[i] \in DOMAIN LowerOf THEN LowerOf[text[i]] ELSE text[i]]

\* a shape; one without a text frame (a picture) has neither text_frame nor
\* text, one that is no placeholder has placeholder None
Shape(name, text, has_text_frame, placeholder, top) ==
    [name |-> name, text |-> text, has_text_frame |-> has_text_frame,
     placeholder |-> placeholder, top |-> top]

Title1 == Shape(<<"T", "i", "t", "l", "e", " ", "1">>, <<"W", "e", "l", "c", "o", "m", "e">>, TRUE, Some("TITLE (1)"), 1)
Subtitle == Shape(<<"S", "u", "b", "t", "i", "t", "l", "e", " ", "P", "l", "a", "c", "e", "h", "o", "l", "d", "e", "r">>, <<"T", "i", "t", "l", "e">>, TRUE, Some("SUBTITLE (4)"), 2)
TitleImage == Shape(<<"T", "i", "t", "l", "e", " ", "I", "m", "a", "g", "e">>, <<>>, FALSE, None, 0)
Content == Shape(<<"C", "o", "n", "t", "e", "n", "t", " ", "2">>, <<"B", "o", "d", "y">>, TRUE, Some("BODY (2)"), 1)
MyTitle == Shape(<<"M", "y", " ", "T", "i", "t", "l", "e">>, <<"W", "e", "l", "c", "o", "m", "e", " ", "b", "a", "c", "k">>, TRUE, None, 3)

ShapePool == {Title1, Subtitle, TitleImage, Content, MyTitle}

Slide(shapes, notes) == [shapes |-> shapes, notes |-> notes]

\* the first slide of a generated presentation: up to MaxShapes different
\* shapes of the pool in any order, without notes
Slides ==
    {Slide(shapes, None) : shapes \in
        {s \in SeqsUpTo(ShapePool, MaxShapes) :
            \A i, j \in 1..Len(s) : i # j => s[i] # s[j]}}

\* the second slide of a generated presentation
PlainSlide == Slide(<<Shape(<<"T", "e", "x", "t", "B", "o", "x", " ", "1">>, <<"T", "h", "a", "n", "k", "s">>, TRUE, None, 2)>>, Some(<<"o", "l", "d">>))

Decks == {<<>>} \cup {<<s>> : s \in Slides} \cup {<<s, PlainSlide>> : s \in Slides}

PptxFiles == {[exists |-> TRUE, slides |-> d] : d \in Decks} \cup {NoFile}

\* one update of the --updates list: a JSON object, every key optional
NoKeys ==
    [slide |-> None, notes |-> None, title |-> None, shape_name |-> None,
     shape_text |-> None, shape |-> None, text |-> None]

OnSlide(n) == [NoKeys EXCEPT !.slide = Some(n)]

NewText == <<"N", "e", "w">>
DoneText == <<"D", "o", "n", "e">>

\* the first update of a request: updates that carry one addressing key
\* (name patterns, text patterns, shape indices and slide numbers in and out
\* of range) and updates that carry several
Updates ==
    {[OnSlide(1) EXCEPT !.notes = Some(NewText)],
     [OnSlide(1) EXCEPT !.title = Some(NewText)],
     [OnSlide(2) EXCEPT !.title = Some(NewText)],
     [OnSlide(1) EXCEPT !.shape_name = Some(<<"t", "i", "t", "l", "e">>)],
     [OnSlide(1) EXCEPT !.shape = Some(0)],
     OnSlide(1),
     [NoKeys EXCEPT !.shape = Some(0), !.text = Some(NewText)],
     [OnSlide(1) EXCEPT !.notes = Some(NewText), !.title = Some(DoneText)],
     [OnSlide(1) EXCEPT !.title = Some(NewText), !.shape_name = Some(<<"c", "o", "n", "t", "e", "n", "t">>),
                        !.text = Some(DoneText)],
     [OnSlide(1) EXCEPT !.shape_name = Some(<<"z", "z", "z">>), !.shape_text = Some(<<"w", "e", "l", "c", "o", "m", "e">>),
                        !.shape = Some(0), !.text = Some(NewText)],
     [OnSlide(1) EXCEPT !.shape_name = Some(<<"c", "o", "n", "t", "e", "n", "t">>), !.shape_text = Some(<<"w", "e", "l", "c", "o", "m", "e">>),
                        !.shape = Some(0), !.text = Some(NewText)],
     [OnSlide(1) EXCEPT !.shape_text = Some(<<"z", "z", "z">>), !.shape = Some(0),
                        !.text = Some(NewText)]}
    \cup {[OnSlide(1) EXCEPT !.shape_name = Some(p), !.text = Some(NewText)] :
            p \in {<<"t", "i", "t", "l", "e">>, <<"T", "I", "T", "L", "E", " ", "1">>, <<"s", "u", "b">>, <<"z", "z", "z">>, <<>>}}
    \cup {[OnSlide(1) EXCEPT !.shape_text = Some(p), !.text = Some(NewText)] :
            p \in {<<"t", "i", "t", "l", "e">>, <<"W", "E", "L", "C", "O", "M", "E">>, <<"n", "e", "w">>, <<"z", "z", "z">>}}
    \cup {[OnSlide(1) EXCEPT !.shape = Some(i), !.text = Some(NewText)] :
            i \in -1..(MaxShapes + 1)}
    \cup {[OnSlide(n) EXCEPT !.shape = Some(0), !.text = Some(NewText)] :
            n \in 0..3}

\* the updates that follow the first one of a request
FollowUps ==
    {[OnSlide(1) EXCEPT !.shape_text = Some(<<"n", "e", "w">>), !.text = Some(DoneText)],
     [OnSlide(1) EXCEPT !.shape_text = Some(<<"w", "e", "l", "c", "o", "m", "e">>), !.text = Some(DoneText)],
     [OnSlide(1) EXCEPT !.shape_name = Some(<<"z", "z", "z">>), !.text = Some(DoneText)],
     [OnSlide(2) EXCEPT !.notes = Some(DoneText)]}

\* the --updates argument after json.loads: a list of updates
UpdateLists ==
    {<<>>} \cup {<<u>> \o rest : u \in Updates,
                                 rest \in SeqsUpTo(FollowUps, MaxUpdates - 1)}

\* shape.placeholder_format of a shape that is no placeholder: the attribute
\* test either finds no placeholder ("skips") or raises ValueError
\* ("raises"), depending on the library
PlaceholderAccess == {"skips", "raises"}

(***************************************************************************)
(* edit_presentation (pptx_engine.py).  A found shape is its 0-based index *)
(* in slide.shapes inside Some, a shape that was not found is None.        *)
(***************************************************************************)
ValueError(message) == [status |-> "error", type |-> "ValueError", message |-> message]

InvalidFormat == [status |-> "error", type |-> "Exception"]

\* the first index from 0 on at which Test holds for the shapes, or None
RECURSIVE FirstFrom(_, _)
FirstFrom(flags, i) ==
    IF i > Len(flags) THEN None
    ELSE IF flags[i] THEN Some(i - 1)
    ELSE FirstFrom(flags, i + 1)

find_shape_by_name(slide, name_pattern) ==
    LET name_lower == Lower(name_pattern)
    IN  FirstFrom([i \in 1..Len(slide.shapes) |->
                      Contains(Lower(slide.shapes[i].name), name_lower)], 1)

find_shape_by_exact_text(slide, text_pattern) ==
    FirstFrom([i \in 1..Len(slide.shapes) |->
                  /\ slide.shapes[i].has_text_frame
                  /\ Contains(slide.shapes[i].text, text_pattern)], 1)

find_shape_by_text(slide, text_pattern) ==
    LET text_lower == Lower(text_pattern)
    IN  FirstFrom([i \in 1..Len(slide.shapes) |->
                      /\ slide.shapes[i].has_text_frame
                      /\ Contains(Lower(slide.shapes[i].text), text_lower)], 1)

\* "TITLE" in str(shape.placeholder_format.type).upper(): the placeholder
\* types whose name contains TITLE
TitleTypes == {"TITLE (1)", "CENTER_TITLE (3)", "SUBTITLE (4)", "VERTICAL_TITLE (5)"}

\* Method 2 of find_title_shape from shape i on: the first placeholder of a
\* title type; raised is TRUE when reading placeholder_format raised
RECURSIVE TitlePlaceholderFrom(_, _, _)
TitlePlaceholderFrom(shapes, i, access) ==
    IF i > Len(shapes) THEN [raised |-> FALSE, shape |-> None]
    ELSE IF shapes[i].placeholder = None
    THEN IF access = "raises" THEN [raised |-> TRUE, shape |-> None]
         ELSE TitlePlaceholderFrom(shapes, i + 1, access)
    ELSE IF shapes[i].placeholder[1] \in TitleTypes
    THEN [raised |-> FALSE, shape |-> Some(i - 1)]
    ELSE TitlePlaceholderFrom(shapes, i + 1, access)

\* Method 3 of find_title_shape: the shapes with a text frame, sorted by top
\* with a stable sort; the first of them
TopmostTextShape(shapes) ==
    FirstFrom([i \in 1..Len(shapes) |->
                  /\ shapes[i].has_text_frame
                  /\ \A j \in 1..Len(shapes) : shapes[j].has_text_frame =>
                        shapes[i].top <= shapes[j].top], 1)

find_title_shape(slide, access) ==
    LET title_shape == find_shape_by_name(slide, <<"t", "i", "t", "l", "e">>)
    IN  IF title_shape # None /\ slide.shapes[title_shape[1] + 1].has_text_frame
        THEN [raised |-> FALSE, shape |-> title_shape]
        ELSE LET method2 == TitlePlaceholderFrom(slide.shapes, 1, access)
             IN  IF method2.raised \/ method2.shape # None THEN method2
                 ELSE [raised |-> FALSE, shape |-> TopmostTextShape(slide.shapes)]

\* shape.text_frame.text = text on shape shape_idx of slide slide_num
SetShapeText(slides, slide_num, shape_idx, text) ==
    [slides EXCEPT ![slide_num].shapes[shape_idx + 1].text = text]

\* slide.notes_slide.notes_text_frame.text = text; the notes slide is made
\* when the slide has none
SetNotes(slides, slide_num, text) == [slides EXCEPT ![slide_num].notes = Some(text)]

\* what one pass of the loop body leaves: the slides, the entry of
\* updated_items (None when the update raised or had no addressing key), the
\* shape that was written and the error that was raised
Applied(slides, item, target) ==
    [ok |-> TRUE, slides |-> slides, item |-> item, target |-> target, error |-> None]

Raised(slides, message) ==
    [ok |-> FALSE, slides |-> slides, item |-> None, target |-> None,
     error |-> Some(ValueError(message))]

\* "if 'text' in update: if hasattr(shape, 'text_frame'): ..." for the shape
\* shape_idx that an addressing mode found
WriteShape(slides, slide_num, shape_idx, update, mode, label) ==
    IF update.text = None THEN Raised(slides, "text missing")
    ELSE IF ~slides[slide_num].shapes[shape_idx + 1].has_text_frame
    THEN Raised(slides, "shape does not support text")
    ELSE Applied(SetShapeText(slides, slide_num, shape_idx, update.text[1]),
                 Some([slide |-> slide_num, mode |-> mode, label |-> label]), Some(shape_idx))

\* an order that tests the shape index first
ModeOrderByIndexFirst == <<"shape", "shape_text", "shape_name", "title", "notes">>

\* the order in which the keys of an update are tested
ModeOrder == <<"notes", "title", "shape_name", "shape_text", "shape">>

\* the addressing key that serves the update: the first one of ModeOrder
\* that the update carries, "none" when it carries none
RECURSIVE FirstKey(_, _, _)
FirstKey(update, order, i) ==
    IF i > Len(order) THEN "none"
    ELSE IF update[order[i]] # None THEN order[i]
    ELSE FirstKey(update, order, i + 1)

\* the body of the loop over the updates for one update
ApplyUpdate(slides, update, access) ==
    IF update.slide = None \/ update.slide[1] = 0
        \/ update.slide[1] < 1 \/ update.slide[1] > Len(slides)
    THEN Raised(slides, "invalid slide number")
    ELSE
    LET slide_num == update.slide[1]
        slide == slides[slide_num]
        mode == FirstKey(update, ModeOrder, 1)
    IN  CASE mode = "notes" ->
                Applied(SetNotes(slides, slide_num, update.notes[1]),
                        Some([slide |-> slide_num, mode |-> "notes", label |-> None]), None)
          [] mode = "title" ->
                LET found == find_title_shape(slide, access)
                IN  IF found.raised THEN Raised(slides, "shape is not a placeholder")
                    ELSE IF found.shape # None
                            /\ slide.shapes[found.shape[1] + 1].has_text_frame
                    THEN Applied(SetShapeText(slides, slide_num, found.shape[1],
                                              update.title[1]),
                                 Some([slide |-> slide_num, mode |-> "title",
                                       label |-> Some(slide.shapes[found.shape[1] + 1].name)]),
                                 found.shape)
                    ELSE Raised(slides, "no title shape")
          [] mode = "shape_name" ->
                LET shape == find_shape_by_name(slide, update.shape_name[1])
                IN  IF shape = None THEN Raised(slides, "no shape with name")
                    ELSE WriteShape(slides, slide_num, shape[1], update, "shape_name",
                                    Some(slide.shapes[shape[1] + 1].name))
          [] mode = "shape_text" ->
                LET shape == find_shape_by_text(slide, update.shape_text[1])
                IN  IF shape = None THEN Raised(slides, "no shape with text")
                    ELSE WriteShape(slides, slide_num, shape[1], update, "shape_text",
                                    Some(slide.shapes[shape[1] + 1].name))
          [] mode = "shape" ->
                LET shape_idx == update.shape[1]
                IN  IF shape_idx < 0 \/ shape_idx >= Len(slide.shapes)
                    THEN Raised(slides, "shape index out of range")
                    ELSE WriteShape(slides, slide_num, shape_idx, update, "shape",
                                    Some(shape_idx))
          [] OTHER -> Applied(slides, None, None)

\* a loop that resolves every update against the slides as they were
\* loaded and writes into the slides as they are
RECURSIVE LoopOnSnapshot(_, _, _, _, _, _, _)
LoopOnSnapshot(loaded, slides, updates, i, updated_items, log, access) ==
    IF i > Len(updates)
    THEN [ok |-> TRUE, slides |-> slides, updated_items |-> updated_items,
          log |-> log, error |-> None]
    ELSE LET seen == ApplyUpdate(loaded, updates[i], access)
         IN  IF ~seen.ok
             THEN [ok |-> FALSE, slides |-> slides, updated_items |-> updated_items,
                   log |-> log, error |-> seen.error]
             ELSE LET u == updates[i]
                      written ==
                        IF seen.target = None
                        THEN IF seen.item = None THEN slides
                             ELSE SetNotes(slides, u.slide[1], u.notes[1])
                        ELSE SetShapeText(slides, u.slide[1], seen.target[1],
                                          IF seen.item[1].mode = "title"
                                          THEN u.title[1] ELSE u.text[1])
                  IN  LoopOnSnapshot(loaded, written, updates, i + 1,
                        IF seen.item = None THEN updated_items
                        ELSE Append(updated_items, seen.item[1]),
                        Append(log, [update |-> i, item |-> seen.item,
                                     target |-> seen.target]),
                        access)

UpdateLoopOnSnapshot(slides, updates, i, updated_items, log, access) ==
    LoopOnSnapshot(slides, slides, updates, i, updated_items, log, access)

\* "for update in updates": the updates from number i on; a raise ends the
\* loop.  log has one entry per update that was applied.
RECURSIVE UpdateLoop(_, _, _, _, _, _)
UpdateLoop(slides, updates, i, updated_items, log, access) ==
    IF i > Len(updates)
    THEN [ok |-> TRUE, slides |-> slides, updated_items |-> updated_items,
          log |-> log, error |-> None]
    ELSE LET r == ApplyUpdate(slides, updates[i], access)
         IN  IF ~r.ok
             THEN [ok |-> FALSE, slides |-> slides, updated_items |-> updated_items,
                   log |-> log, error |-> r.error]
             ELSE UpdateLoop(r.slides, updates, i + 1,
                             IF r.item = None THEN updated_items
                             ELSE Append(updated_items, r.item[1]),
                             Append(log, [update |-> i, item |-> r.item,
                                          target |-> r.target]),
                             access)

\* edit_presentation between load and save: ok is FALSE when it raises
edit_presentation(slides, updates, access) ==
    LET r == UpdateLoop(slides, updates, 1, <<>>, <<>>, access)
    IN  [ok |-> r.ok,
         slides |-> r.slides,
         log |-> r.log,
         result |-> IF r.ok
                    THEN [status |-> "success", updated_items |-> r.updated_items,
                          count |-> Len(r.updated_items)]
                    ELSE r.error[1]]

\* "edit" of pptx_engine.py: load, apply the updates, save
EditPresentation ==
    /\ pc = "start"
    /\ \E updates \in UpdateLists, access \in PlaceholderAccess :
        /\ args' = [command |-> "edit", updates |-> updates]
        /\ IF ~file.exists
           THEN /\ result' = FileNotFound
                /\ UNCHANGED <<file, before, visited>>
           ELSE IF "slides" \notin DOMAIN file
           THEN /\ result' = InvalidFormat
                /\ UNCHANGED <<file, before, visited>>
           ELSE LET r == edit_presentation(file.slides, updates, access)
                IN  /\ before' = file
                    /\ file' = IF r.ok THEN [exists |-> TRUE, slides |-> r.slides]
                               ELSE file
                    /\ visited' = r.log
                    /\ result' = r.result
    /\ MainPrints(result')
    /\ pc' = "exit"

(***************************************************************************)
(* edit_table_cell (docx_engine.py).                                       *)
(***************************************************************************)
\* the documents of edit_table_cell: no table, one table, two tables
EditBodies ==
    {<<>>, <<PoolPara(0)>>}
        \cup {<<PoolPara(0), Table(r, c, 1, 0)>> : r, c \in 1..MaxTableDim}
        \cup {<<Table(r, c, 1, 0), PoolPara(1), Table(1, 1, 2, 1)>> : r, c \in 1..MaxTableDim}

\* an edit_table_cell that brings an index that is out of range to the
\* nearest valid one
edit_table_cell_clamped(body, table_index, row, col, text) ==
    LET tables == DocTables(body)
    IN  IF tables = <<>>
        THEN [ok |-> FALSE, body |-> body,
              result |-> ValueError("table index out of range")]
        ELSE LET at == tables[Clamp(table_index, Len(tables) - 1) + 1]
                 r == Clamp(row, Len(body[at].rows) - 1)
                 c == Clamp(col, Len(body[at].rows[1]) - 1)
             IN  [ok |-> TRUE,
                  body |-> [body EXCEPT ![at] = SetCellText(@, r + 1, c + 1, text)],
                  result |-> [status |-> "success", table_index |-> table_index,
                              row |-> row, col |-> col, text |-> text]]

\* edit_table_cell between load and save: ok is FALSE when it raises
edit_table_cell(body, table_index, row, col, text) ==
    LET tables == DocTables(body)
    IN  IF table_index < 0 \/ table_index >= Len(tables)
        THEN [ok |-> FALSE, body |-> body,
              result |-> ValueError("table index out of range")]
        ELSE LET at == tables[table_index + 1]
                 table == body[at]
             IN  IF row < 0 \/ row >= Len(table.rows)
                 THEN [ok |-> FALSE, body |-> body,
                       result |-> ValueError("row index out of range")]
                 ELSE IF col < 0 \/ col >= Len(table.rows[1])
                 THEN [ok |-> FALSE, body |-> body,
                       result |-> ValueError("column index out of range")]
                 ELSE [ok |-> TRUE,
                       body |-> [body EXCEPT ![at] = SetCellText(@, row + 1, col + 1, text)],
                       result |-> [status |-> "success", table_index |-> table_index,
                                   row |-> row, col |-> col, text |-> text]]

EditTableCell ==
    /\ pc = "start"
    /\ \E table_index \in -1..2, row \in -1..MaxTableDim, col \in -1..MaxTableDim :
        /\ args' = [command |-> "edit_table_cell", table_index |-> table_index,
                    row |-> row, col |-> col, text |-> <<"x">>]
        /\ IF ~file.exists
           THEN /\ result' = FileNotFound
                /\ UNCHANGED <<file, before>>
           ELSE IF "body" \notin DOMAIN file
           THEN /\ result' = InvalidFormat
                /\ UNCHANGED <<file, before>>
           ELSE LET r == edit_table_cell(file.body, table_index, row, col, <<"x">>)
                IN  /\ before' = file
                    /\ file' = IF r.ok THEN [exists |-> TRUE, body |-> r.body] ELSE file
                    /\ result' = r.result
    /\ UNCHANGED visited
    /\ MainPrints(result')
    /\ pc' = "exit"

(***************************************************************************)
(* An edit invocation on a file: edit of pptx_engine.py or edit_table_cell *)
(* of docx_engine.py.                                                      *)
(***************************************************************************)
InitEdit ==
    /\ file \in PptxFiles \cup {[exists |-> TRUE, body |-> b] : b \in EditBodies}
    /\ before = NoFile
    /\ args = [command |-> "none"]
    /\ result = NotRun
    /\ visited = <<>>
    /\ pc = "start"
    /\ stdout = <<>>
    /\ exit_code = None

SpecEdit == InitEdit /\ [][EditPresentation \/ EditTableCell]_vars

(***************************************************************************)
(* Reference definitions for the statements about edit_presentation.       *)
(***************************************************************************)
\* an edit command loaded a presentation and went through its updates
Edited ==
    /\ pc = "exit"
    /\ args.command = "edit"
    /\ before.exists

EditSucceeded == Edited /\ result.status = "success"

\* the loop raised at the update after the applied ones
EditFailed ==
    /\ Edited
    /\ result.status = "error"
    /\ Len(visited) < Len(args.updates)

FailedUpdate == args.updates[Len(visited) + 1]

\* the addressing mode that serves an update: the first key it carries in
\* the order notes, title, shape_name, shape_text, shape
RefMode(u) ==
    IF u.notes # None THEN "notes"
    ELSE IF u.title # None THEN "title"
    ELSE IF u.shape_name # None THEN "shape_name"
    ELSE IF u.shape_text # None THEN "shape_text"
    ELSE IF u.shape # None THEN "shape"
    ELSE "none"

WrittenText(u) ==
    IF RefMode(u) = "notes" THEN u.notes[1]
    ELSE IF RefMode(u) = "title" THEN u.title[1]
    ELSE u.text[1]

\* the slides after the first k updates of the request: the loaded slides
\* with the texts the log says were written
RECURSIVE StateAfter(_)
StateAfter(k) ==
    IF k = 0 THEN before.slides
    ELSE LET prev == StateAfter(k - 1)
             u == args.updates[k]
             e == visited[k]
         IN  IF e.item = None THEN prev
             ELSE IF e.target = None
             THEN [prev EXCEPT ![u.slide[1]].notes = Some(u.notes[1])]
             ELSE [prev EXCEPT ![u.slide[1]].shapes[e.target[1] + 1].text =
                                    WrittenText(u)]

SameLetter(c, d) ==
    \/ c = d
    \/ \E i \in 1..Len(Uppers) : {c, d} = {Uppers[i], Lowers[i]}

\* text contains pattern when the case of the letters is ignored
ContainsIgnoringCase(text, pattern) ==
    \E off \in 0..(Len(text) - Len(pattern)) :
        \A j \in 1..Len(pattern) : SameLetter(text[off + j], pattern[j])

\* the 0-based indices of the shapes of a slide that match a pattern
MatchesByName(slide, pattern) ==
    {i \in 0..(Len(slide.shapes) - 1) :
        ContainsIgnoringCase(slide.shapes[i + 1].name, pattern)}

MatchesByText(slide, pattern) ==
    {i \in 0..(Len(slide.shapes) - 1) :
        /\ slide.shapes[i + 1].has_text_frame
        /\ ContainsIgnoringCase(slide.shapes[i + 1].text, pattern)}

Least(S) == CHOOSE i \in S : \A j \in S : i <= j

SlideInRange(u, slides) == u.slide # None /\ u.slide[1] \in 1..Len(slides)

TitleWord == <<"t", "i", "t", "l", "e">>

\* the text-supporting shapes of a slide with "title" in the name
TitleNamed(slide) ==
    {i \in MatchesByName(slide, TitleWord) : slide.shapes[i + 1].has_text_frame}

(***************************************************************************)
(* Statements about edit_presentation and edit_table_cell.                 *)
(***************************************************************************)
\* C13: title resolution on a slide that holds a shape named "Subtitle
\* Placeholder" with the text "Title" and a shape named "Title 1" with the
\* text "Welcome" selects "Title 1" and never the subtitle, in both orders
\* of the two shapes.
C13_TitleNotSubtitle ==
    (/\ Edited
     /\ args.updates = <<[OnSlide(1) EXCEPT !.title = Some(NewText)]>>
     /\ Len(before.slides) >= 1
     /\ before.slides[1].shapes \in {<<Title1, Subtitle>>, <<Subtitle, Title1>>}) =>
        /\ result.status = "success"
        /\ \A i \in 1..2 :
            file.slides[1].shapes[i].text =
                IF before.slides[1].shapes[i].name = <<"T", "i", "t", "l", "e", " ", "1">> THEN NewText
                ELSE before.slides[1].shapes[i].text

\* C14: title resolution applies three rules in strict order and the first
\* rule that yields a candidate wins: (a) a text-supporting shape with
\* "title" in its name, (b) a placeholder of a title type, (c) the topmost
\* text-bearing shape; so whenever some text-supporting shape has "title" in
\* its name the title update succeeds and writes such a shape.
C14_TitleRuleOrder ==
    Edited =>
        /\ \A k \in 1..Len(visited) :
            LET u == args.updates[k]
                slide == before.slides[u.slide[1]]
            IN  (RefMode(u) = "title" /\ TitleNamed(slide) # {}) =>
                    /\ visited[k].target # None
                    /\ visited[k].target[1] \in TitleNamed(slide)
        /\ (EditFailed /\ SlideInRange(FailedUpdate, before.slides)
                /\ RefMode(FailedUpdate) = "title") =>
                TitleNamed(before.slides[FailedUpdate.slide[1]]) = {}

\* C15: resolution by name substring and by text substring returns the
\* first shape in slide order whose name (or text) contains the pattern
\* without regard to case, and the edit fails with a not-found error when
\* no shape matches (stated for the first update of a request, which meets
\* the slide as it was loaded).
C15_FirstMatchOrNotFound ==
    (Edited /\ args.updates # <<>> /\ SlideInRange(args.updates[1], before.slides)) =>
        LET u == args.updates[1]
            slide == before.slides[u.slide[1]]
            byName == MatchesByName(slide, u.shape_name[1])
            byText == MatchesByText(slide, u.shape_text[1])
        IN  /\ (RefMode(u) = "shape_name" /\ byName # {} /\ visited # <<>>) =>
                    visited[1].target = Some(Least(byName))
            /\ (RefMode(u) = "shape_name" /\ byName = {}) =>
                    /\ result = ValueError("no shape with name")
                    /\ file = before
            /\ (RefMode(u) = "shape_name" /\ byName # {} /\ visited = <<>>) =>
                    result # ValueError("no shape with name")
            /\ (RefMode(u) = "shape_text" /\ byText # {} /\ visited # <<>>) =>
                    visited[1].target = Some(Least(byText))
            /\ (RefMode(u) = "shape_text" /\ byText = {}) =>
                    /\ result = ValueError("no shape with text")
                    /\ file = before
            /\ (RefMode(u) = "shape_text" /\ byText # {} /\ visited = <<>>) =>
                    result # ValueError("no shape with text")

\* the pattern WELCOME found the second shape of the slide, whose text is
\* Welcome, and the shape was rewritten
C15_Witness ==
    /\ EditSucceeded
    /\ Len(args.updates) = 1
    /\ args.updates[1].shape_text = Some(<<"W", "E", "L", "C", "O", "M", "E">>)
    /\ RefMode(args.updates[1]) = "shape_text"
    /\ visited[1].target = Some(1)
    /\ before.slides[1].shapes[2].text = <<"W", "e", "l", "c", "o", "m", "e">>
    /\ file.slides[1].shapes[2].text = NewText

OutOfRangeMessages ==
    {"table index out of range", "row index out of range",
     "column index out of range", "invalid slide number", "shape index out of range"}

\* C16: a table, row, column, slide or shape index outside [0, count) (for a
\* slide: the slide number minus one) always fails with an out-of-range
\* error and is never clamped to a valid index; the request modifies no
\* cell, paragraph or shape.
C16_OutOfRangeFails ==
    /\ (pc = "exit" /\ args.command = "edit_table_cell" /\ before.exists) =>
        LET tables == DocTables(before.body)
            tableBad == args.table_index \notin 0..(Len(tables) - 1)
            table == before.body[tables[args.table_index + 1]]
            rowBad == args.row \notin 0..(Len(table.rows) - 1)
            colBad == args.col \notin 0..(Len(table.rows[1]) - 1)
        IN  (tableBad \/ rowBad \/ colBad) =>
                /\ result.status = "error"
                /\ result.type = "ValueError"
                /\ result.message \in OutOfRangeMessages
                /\ file = before
    /\ Edited =>
        /\ \A k \in 1..Len(visited) :
            LET u == args.updates[k]
            IN  /\ SlideInRange(u, before.slides)
                /\ RefMode(u) = "shape" =>
                    /\ u.shape[1] \in 0..(Len(before.slides[u.slide[1]].shapes) - 1)
                    /\ visited[k].target = u.shape
        /\ result.status = "success" => Len(visited) = Len(args.updates)
        /\ EditFailed =>
            LET u == FailedUpdate
            IN  /\ file = before
                /\ (u.slide # None /\ ~SlideInRange(u, before.slides)) =>
                        result = ValueError("invalid slide number")
                /\ (SlideInRange(u, before.slides) /\ RefMode(u) = "shape"
                      /\ u.shape[1] \notin
                            0..(Len(before.slides[u.slide[1]].shapes) - 1)) =>
                        result = ValueError("shape index out of range")

\* a request whose shape index is the number of shapes of the slide failed
\* and left the file as it was
C16_Witness ==
    /\ EditFailed
    /\ SlideInRange(FailedUpdate, before.slides)
    /\ RefMode(FailedUpdate) = "shape"
    /\ FailedUpdate.shape = Some(Len(before.slides[FailedUpdate.slide[1]].shapes))
    /\ Len(before.slides[FailedUpdate.slide[1]].shapes) >= 1
    /\ result = ValueError("shape index out of range")
    /\ file = before

\* C19: within one edit_presentation call each update's shape reference is
\* resolved when that update is applied, against the slides as the earlier
\* updates of the call left them (a shape_text lookup sees the text an
\* earlier update wrote), never against the slides as they were loaded.
C19_ResolvedAtMutationTime ==
    Edited =>
        /\ \A k \in 2..Len(visited) :
            LET u == args.updates[k]
                slide == StateAfter(k - 1)[u.slide[1]]
            IN  /\ RefMode(u) = "shape_text" =>
                    /\ MatchesByText(slide, u.shape_text[1]) # {}
                    /\ visited[k].target = Some(Least(MatchesByText(slide, u.shape_text[1])))
                /\ RefMode(u) = "shape_name" =>
                    /\ MatchesByName(slide, u.shape_name[1]) # {}
                    /\ visited[k].target = Some(Least(MatchesByName(slide, u.shape_name[1])))
        /\ (EditFailed /\ Len(visited) >= 1 /\ SlideInRange(FailedUpdate, before.slides)
                /\ RefMode(FailedUpdate) = "shape_text") =>
                LET slide == StateAfter(Len(visited))[FailedUpdate.slide[1]]
                    found == MatchesByText(slide, FailedUpdate.shape_text[1])
                IN  (result = ValueError("no shape with text")) <=> (found = {})
        /\ EditSucceeded => file.slides = StateAfter(Len(visited))

\* the second update found by the text "new" a shape whose text held no
\* "new" when the presentation was loaded
C19_Witness ==
    /\ EditSucceeded
    /\ Len(args.updates) = 2
    /\ RefMode(args.updates[2]) = "shape_text"
    /\ args.updates[2].shape_text = Some(<<"n", "e", "w">>)
    /\ MatchesByText(before.slides[1], <<"n", "e", "w">>) = {}
    /\ visited[2].target = visited[1].target
    /\ file.slides[1].shapes[visited[2].target[1] + 1].text = DoneText

\* C20: every update is served by exactly one addressing mode and modes are
\* not chained: of the keys notes, title, shape_name, shape_text, shape only
\* the first that the update carries is used, and when its lookup fails the
\* update fails instead of falling back to another mode.
C20_OneAddressingMode ==
    Edited =>
        /\ \A k \in 1..Len(visited) :
            LET u == args.updates[k]
                e == visited[k]
                slide == StateAfter(k - 1)[u.slide[1]]
            IN  /\ (e.item = None) <=> (RefMode(u) = "none")
                /\ e.item # None => e.item[1].mode = RefMode(u)
                /\ RefMode(u) = "notes" => e.target = None
                /\ RefMode(u) = "shape_name" =>
                        e.target[1] \in MatchesByName(slide, u.shape_name[1])
                /\ RefMode(u) = "shape_text" =>
                        e.target[1] \in MatchesByText(slide, u.shape_text[1])
                /\ RefMode(u) = "shape" => e.target = u.shape
        /\ (EditFailed /\ SlideInRange(FailedUpdate, before.slides)) =>
            LET u == FailedUpdate
                slide == StateAfter(Len(visited))[u.slide[1]]
            IN  /\ RefMode(u) \notin {"notes", "none"}
                /\ (RefMode(u) = "shape_name"
                        /\ MatchesByName(slide, u.shape_name[1]) = {}) =>
                        result = ValueError("no shape with name")
                /\ (RefMode(u) = "shape_text"
                        /\ MatchesByText(slide, u.shape_text[1]) = {}) =>
                        result = ValueError("no shape with text")
        /\ EditSucceeded =>
            /\ Len(visited) = Len(args.updates)
            /\ file.slides = StateAfter(Len(visited))

\* an update with the keys shape_name, shape_text and shape failed on its
\* shape_name although its shape_text and its shape index name a shape
C20_Witness ==
    /\ EditFailed
    /\ Len(visited) = 0
    /\ SlideInRange(FailedUpdate, before.slides)
    /\ FailedUpdate.shape_name = Some(<<"z", "z", "z">>)
    /\ FailedUpdate.shape_text = Some(<<"w", "e", "l", "c", "o", "m", "e">>)
    /\ FailedUpdate.shape = Some(0)
    /\ MatchesByText(before.slides[1], <<"w", "e", "l", "c", "o", "m", "e">>) # {}
    /\ before.slides[1].shapes[1].has_text_frame
    /\ result = ValueError("no shape with name")
    /\ file = before

(***************************************************************************)
(* Page ranges (pdf_engine.py).                                            *)
(***************************************************************************)
DigitChars == <<"0", "1", "2", "3", "4", "5", "6", "7", "8", "9">>

IsDigit(c) == \E i \in 1..Len(DigitChars) : DigitChars[i] = c

DigitValue(c) == (CHOOSE i \in 1..Len(DigitChars) : DigitChars[i] = c) - 1

RECURSIVE Decimal(_)
Decimal(digits) ==
    IF digits = <<>> THEN 0
    ELSE 10 * Decimal(SubSeq(digits, 1, Len(digits) - 1)) + DigitValue(digits[Len(digits)])

\* Python: int(text) for a text of digits, signs and other characters; ok
\* is FALSE when it raises ValueError
ToInt(text) ==
    LET signed == text # <<>> /\ text[1] \in {"-", "+"}
        digits == IF signed THEN Tail(text) ELSE text
    IN  IF digits = <<>> \/ \E i \in 1..Len(digits) : ~IsDigit(digits[i])
        THEN [ok |-> FALSE, n |-> 0]
        ELSE [ok |-> TRUE,
              n |-> IF signed /\ text[1] = "-" THEN 0 - Decimal(digits)
                    ELSE Decimal(digits)]

FirstIndexOf(text, c) ==
    CHOOSE i \in 1..Len(text) : text[i] = c /\ \A j \in 1..(i - 1) : text[j] # c

\* Python: text.split(sep)
RECURSIVE Split(_, _)
Split(text, sep) ==
    IF \A i \in 1..Len(text) : text[i] # sep THEN <<text>>
    ELSE LET i == FirstIndexOf(text, sep)
         IN  <<SubSeq(text, 1, i - 1)>> \o Split(SubSeq(text, i + 1, Len(text)), sep)

\* Python: text.split(sep, 1) for a text that holds sep
SplitOnce(text, sep) ==
    LET i == FirstIndexOf(text, sep)
    IN  <<SubSeq(text, 1, i - 1), SubSeq(text, i + 1, Len(text))>>

\* the loop over the parts: the set of pages, ok is FALSE when int() raised
RECURSIVE PagesOfParts(_, _, _)
PagesOfParts(parts, i, pages) ==
    IF i > Len(parts) THEN [ok |-> TRUE, pages |-> pages]
    ELSE LET part == parts[i]
         IN  IF \E j \in 1..Len(part) : part[j] = "-"
             THEN LET halves == SplitOnce(part, "-")
                      start == ToInt(halves[1])
                      end == ToInt(halves[2])
                  IN  IF ~start.ok \/ ~end.ok THEN [ok |-> FALSE, pages |-> pages]
                      ELSE PagesOfParts(parts, i + 1,
                                        pages \cup ((start.n - 1)..(end.n - 1)))
             ELSE LET n == ToInt(part)
                  IN  IF ~n.ok THEN [ok |-> FALSE, pages |-> pages]
                      ELSE PagesOfParts(parts, i + 1, pages \cup {n.n - 1})

\* the elements of S from the largest to the smallest
SortedDescending(S) ==
    [i \in 1..Cardinality(S) |->
        CHOOSE x \in S : Cardinality({y \in S : y > x}) = i - 1]

\* Python: sorted(S)
RECURSIVE Sorted(_)
Sorted(S) ==
    IF S = {} THEN <<>>
    ELSE LET m == CHOOSE x \in S : \A y \in S : x <= y
         IN  <<m>> \o Sorted(S \ {m})

\* parse_page_range: the 0-based indices of the pages, ok is FALSE when it
\* raises ValueError
parse_page_range(page_range_str, total_pages) ==
    IF page_range_str = None \/ page_range_str[1] = <<>>
    THEN [ok |-> TRUE, pages |-> [i \in 1..total_pages |-> i - 1]]
    ELSE LET parts == Split(str_replace(page_range_str[1], <<" ">>, <<>>), ",")
             r == PagesOfParts(parts, 1, {})
         IN  IF ~r.ok THEN [ok |-> FALSE, pages |-> <<>>]
             ELSE [ok |-> TRUE,
                   pages |-> Sorted({p \in r.pages : 0 <= p /\ p < total_pages})]

(***************************************************************************)
(* The to_images command of pdf_engine.py and the recalculate command of   *)
(* xlsx_engine.py.  A PDF file is its number of pages and the rotation of    *)
(* each page; a workbook is the sequence of its cells, each a formula the  *)
(* calculation knows, a formula it does not know, or a plain value.        *)
(***************************************************************************)
PdfFiles ==
    {[exists |-> TRUE, pages |-> Len(r), rotate |-> r] :
        r \in SeqsUpTo({0, 90}, MaxPages) \ {<<>>}} \cup {NoFile}

\* the --pages argument
PageRanges ==
    {None, Some(<<>>),
     Some(<<"1">>),
     Some(<<"2", "-", "3">>),
     Some(<<"1", ",", "3">>),
     Some(<<"3", "-", "1">>),
     Some(<<"9">>),
     Some(<<" ", "2", " ", ",", " ", "1">>),
     Some(<<"1", "-", "2", ",", "2", "-", "3">>),
     Some(<<"0", ",", "2">>),
     Some(<<"x">>),
     Some(<<"1", "-">>)}

\* what the machine provides: the pdftoppm program, the pdf2image package
\* and the return code of pdftoppm
PdfEnvironments ==
    [pdftoppm : BOOLEAN, pdf2image : BOOLEAN, returncode : {0, 1}]


XlsxFiles ==
    {[exists |-> TRUE, cells |-> c] :
        c \in SeqsUpTo({"known formula", "unknown formula", "value"}, MaxCells)}
        \cup {NoFile}

\* what the machine provides: the formulas package, and whether its
\* calculation raises
XlsxEnvironments == [formulas : BOOLEAN, calculates : BOOLEAN]

\* a command that returned its result, and a command that raised
Returned(value) == [raised |-> FALSE, result |-> value]
Raises(error) == [raised |-> TRUE, result |-> error]

\* the pages first..last as a sequence
PagesFromTo(first, last) == [i \in 1..(last - first + 1) |-> first + i - 1]

\* pdf_to_images: the pages it rendered are created_files
pdf_to_images(pdf, pages, format, env) ==
    IF ~pdf.exists THEN Raises(FileNotFound)
    ELSE IF ~env.pdftoppm
    THEN IF ~env.pdf2image
         THEN Returned([status |-> "error", type |-> "DependencyError"])
         ELSE LET parsed == parse_page_range(pages, pdf.pages)
                  page_indices == parsed.pages
                  first_page == IF page_indices # <<>> THEN page_indices[1] + 1 ELSE 1
                  last_page == IF page_indices # <<>>
                               THEN page_indices[Len(page_indices)] + 1
                               ELSE pdf.pages
              IN  IF ~parsed.ok THEN Raises(Error("ValueError"))
                  ELSE Returned([status |-> "success",
                                 created_files |-> PagesFromTo(first_page, last_page),
                                 method |-> "pdf2image"])
    ELSE LET parsed == IF pages # None /\ pages[1] # <<>>
                       THEN parse_page_range(pages, pdf.pages)
                       ELSE [ok |-> TRUE, pages |-> <<>>]
             page_indices == parsed.pages
             rendered == IF page_indices # <<>>
                         THEN PagesFromTo(page_indices[1] + 1,
                                          page_indices[Len(page_indices)] + 1)
                         ELSE PagesFromTo(1, pdf.pages)
         IN  IF ~parsed.ok THEN Raises(Error("ValueError"))
             ELSE IF env.returncode # 0
             THEN Returned([status |-> "error", type |-> "ConversionError"])
             ELSE Returned([status |-> "success", created_files |-> rendered,
                            method |-> "pdftoppm"])

\* the entries of recalculated for the formula cells of the sheet
RECURSIVE RecalculatedCells(_, _)
RecalculatedCells(cells, i) ==
    IF i > Len(cells) THEN <<>>
    ELSE IF cells[i] \notin {"known formula", "unknown formula"}
    THEN RecalculatedCells(cells, i + 1)
    ELSE <<[cell |-> i, calculated |-> cells[i] = "known formula"]>>
            \o RecalculatedCells(cells, i + 1)

\* recalculate_workbook: every exception is caught and returned as a dict
recalculate_workbook(workbook, env) ==
    IF ~env.formulas THEN Returned([status |-> "error", type |-> "ImportError"])
    ELSE IF ~workbook.exists THEN Returned(FileNotFound)
    ELSE IF ~env.calculates
    THEN Returned([status |-> "error", type |-> "Exception",
                   note |-> "Some Excel functions may not be supported"])
    ELSE Returned([status |-> "success",
                   recalculated |-> RecalculatedCells(workbook.cells, 1)])

\* main of pdf_engine.py and xlsx_engine.py: the returned dict is printed
\* and main ends; an exception prints the error object and sys.exit(1)
Main(outcome) ==
    /\ result' = outcome.result
    /\ stdout' = Append(stdout, outcome.result)
    /\ exit_code' = ExitOfMain(outcome.raised)

PdfToImages ==
    /\ pc = "start"
    /\ "cells" \notin DOMAIN file
    /\ \E pages \in PageRanges, format \in {"png", "jpg"}, env \in PdfEnvironments :
        /\ args' = [command |-> "to_images", pages |-> pages, format |-> format,
                    env |-> env]
        /\ Main(pdf_to_images(file, pages, format, env))
    /\ before' = file
    /\ UNCHANGED <<file, visited>>
    /\ pc' = "exit"

\* a recalculate that stores the values it calculated in the file
XlsxRecalculateSaving ==
    /\ pc = "start"
    /\ "pages" \notin DOMAIN file
    /\ \E env \in XlsxEnvironments :
        /\ args' = [command |-> "recalculate", env |-> env]
        /\ Main(recalculate_workbook(file, env))
        /\ file' = IF recalculate_workbook(file, env).result.status = "success"
                   THEN [file EXCEPT !.cells =
                            [i \in DOMAIN @ |->
                                IF @[i] = "known formula" THEN "value" ELSE @[i]]]
                   ELSE file
    /\ before' = file
    /\ UNCHANGED visited
    /\ pc' = "exit"

XlsxRecalculate ==
    /\ pc = "start"
    /\ "pages" \notin DOMAIN file
    /\ \E env \in XlsxEnvironments :
        /\ args' = [command |-> "recalculate", env |-> env]
        /\ Main(recalculate_workbook(file, env))
    /\ before' = file
    /\ UNCHANGED <<file, visited>>
    /\ pc' = "exit"

(***************************************************************************)
(* A to_images or recalculate invocation on a file.                        *)
(***************************************************************************)
InitCli ==
    /\ file \in PdfFiles \cup XlsxFiles
    /\ before = NoFile
    /\ args = [command |-> "none"]
    /\ result = NotRun
    /\ visited = <<>>
    /\ pc = "start"
    /\ stdout = <<>>
    /\ exit_code = None

SpecCli == InitCli /\ [][PdfToImages \/ XlsxRecalculate]_vars

\* C17: every command prints exactly one JSON object; when the command
\* fails the object is {status: "error", message, type} and the exit code is
\* not zero, so status "error" never comes with exit code 0.
C17_ErrorExitsNonZero ==
    pc = "exit" =>
        /\ Len(stdout) = 1
        /\ stdout[1] = result
        /\ result.status = "error" =>
            /\ exit_code \notin {None, Some(0)}
            /\ DOMAIN result \subseteq {"status", "message", "type"}

(***************************************************************************)
(* Two edit_text invocations of docx_engine.py on the same path.  Each     *)
(* invocation loads the file, changes the loaded document in memory and    *)
(* saves it; the steps of the two are interleaved in any order.  In this   *)
(* specification before, args, result, pc, stdout and exit_code are        *)
(* functions of the invocation, and visited lists the invocations in the   *)
(* order of their saves.  A load reads and a save writes the whole file in *)
(* one step.                                                               *)
(***************************************************************************)
Invocations == {1, 2}

\* a save that leaves a file that is already stored as it is
save_document_skipped(stored, doc) ==
    IF stored.exists THEN stored ELSE [exists |-> TRUE, body |-> doc]

\* save_document_safe(doc, path): the file at path after doc.save
save_document_safe(stored, doc) == [exists |-> TRUE, body |-> doc]

\* para.clear(); para.add_run(new_text) on paragraph paragraph_index
EditedBody(body, paragraph_index, new_text) ==
    [body EXCEPT ![DocParagraphs(body)[paragraph_index + 1]] = AddRun(Clear(@), new_text)]

\* load_document_safe and the range check of edit_paragraph_text
LoadForEdit(p) ==
    /\ pc[p] = "start"
    /\ \E paragraph_index \in -1..2, new_text \in {<<"x">>, <<"y">>} :
        /\ args' = [args EXCEPT ![p] = [command |-> "edit_text",
                                        paragraph_index |-> paragraph_index,
                                        new_text |-> new_text]]
        /\ IF ~file.exists
           THEN /\ result' = [result EXCEPT ![p] = FileNotFound]
                /\ stdout' = [stdout EXCEPT ![p] = Append(@, FileNotFound)]
                /\ exit_code' = [exit_code EXCEPT ![p] = ExitOfMain(TRUE)]
                /\ pc' = [pc EXCEPT ![p] = "exit"]
                /\ UNCHANGED before
           ELSE IF paragraph_index < 0
                    \/ paragraph_index >= Len(DocParagraphs(file.body))
           THEN /\ before' = [before EXCEPT ![p] = file]
                /\ result' = [result EXCEPT ![p] = ValueError("paragraph index out of range")]
                /\ stdout' = [stdout EXCEPT ![p] =
                                Append(@, ValueError("paragraph index out of range"))]
                /\ exit_code' = [exit_code EXCEPT ![p] = ExitOfMain(TRUE)]
                /\ pc' = [pc EXCEPT ![p] = "exit"]
           ELSE /\ before' = [before EXCEPT ![p] = file]
                /\ pc' = [pc EXCEPT ![p] = "loaded"]
                /\ UNCHANGED <<result, stdout, exit_code>>
    /\ UNCHANGED <<file, visited>>

\* the change in memory, save_document_safe and the return of
\* edit_paragraph_text
SaveEdited(p) ==
    /\ pc[p] = "loaded"
    /\ LET printed == [status |-> "success",
                       paragraph_index |-> args[p].paragraph_index,
                       new_text |-> args[p].new_text]
       IN  /\ file' = save_document_safe(file,
                        EditedBody(before[p].body, args[p].paragraph_index,
                                   args[p].new_text))
           /\ result' = [result EXCEPT ![p] = printed]
           /\ stdout' = [stdout EXCEPT ![p] = Append(@, printed)]
           /\ exit_code' = [exit_code EXCEPT ![p] = ExitOfMain(FALSE)]
    /\ visited' = Append(visited, p)
    /\ pc' = [pc EXCEPT ![p] = "exit"]
    /\ UNCHANGED <<before, args>>

InitRace ==
    /\ file \in InsertFiles
    /\ before = [p \in Invocations |-> NoFile]
    /\ args = [p \in Invocations |-> [command |-> "none"]]
    /\ result = [p \in Invocations |-> NotRun]
    /\ visited = <<>>
    /\ pc = [p \in Invocations |-> "start"]
    /\ stdout = [p \in Invocations |-> <<>>]
    /\ exit_code = [p \in Invocations |-> None]

SpecRace == InitRace /\ [][\E p \in Invocations : LoadForEdit(p) \/ SaveEdited(p)]_vars

\* C18: when two invocations change the same file and their load and save
\* steps interleave, nothing coordinates them: after every save the file
\* holds exactly the document of the invocation that saved last, which is
\* the document that invocation loaded with its own paragraph rewritten, so
\* the change of the earlier saver can be lost.
C18_LastWriteWins ==
    visited # <<>> =>
        LET p == visited[Len(visited)]
            loaded == before[p].body
            at == DocParagraphs(loaded)[args[p].paragraph_index + 1]
        IN  /\ file.exists
            /\ Len(file.body) = Len(loaded)
            /\ \A i \in 1..Len(loaded) : i # at => file.body[i] = loaded[i]
            /\ file.body[at].kind = "p"
            /\ ParaText(file.body[at]) = args[p].new_text
            /\ Len(file.body[at].runs) = 1

\* both invocations loaded the same file and saved, they rewrote different
\* paragraphs, and the paragraph of the first saver is as it was loaded
C18_Witness ==
    /\ Len(visited) = 2
    /\ visited[1] # visited[2]
    /\ before[1] = before[2]
    /\ args[1].paragraph_index # args[2].paragraph_index
    /\ LET first == visited[1]
           at == DocParagraphs(before[first].body)[args[first].paragraph_index + 1]
       IN  /\ file.body[at] = before[first].body[at]
           /\ ParaText(file.body[at]) # args[first].new_text
    /\ \A p \in Invocations : result[p].status = "success" /\ exit_code[p] = Some(0)

(***************************************************************************)
(* Claims about failures, saves and the placement of a new table.          *)
(***************************************************************************)
\* the style assignment of insert_paragraph was attempted and failed
StyleFailed ==
    /\ args.command = "insert_paragraph"
    /\ args.style # None
    /\ args.style[1] \notin KnownStyles

\* the filling of the new table was attempted and failed: the data is no
\* JSON, or a row that is to be filled cannot be iterated
DataFailed ==
    /\ args.command = "add_table"
    /\ \/ args.data.kind = "invalid"
       \/ /\ args.data.kind = "rows"
          /\ \E r \in 1..Len(args.data.rows) :
                r <= args.rows /\ ~args.data.rows[r].iterable

\* C21: when an optional best-effort step of a command fails (the style of
\* a new paragraph cannot be applied, the data of a new table cannot be
\* filled in), the result the command prints carries a warning field.
C21_BestEffortFailureWarned ==
    (pc = "exit" /\ result.status = "success" /\ (StyleFailed \/ DataFailed))
        => "warning" \in DOMAIN result

(***************************************************************************)
(* The edit command of xlsx_engine.py.  The workbook has the sheets of     *)
(* SheetNames; its cells are those of the first one, in the order of       *)
(* CellRefs, and a cell that holds nothing is "blank".                     *)
(***************************************************************************)
SheetNames == {"Sheet1"}

CellRefs == <<"A1", "A2", "A3", "A4">>

\* the updates of --updates: the 'cell' key is missing, empty or the
\* reference of the first or of a later cell, the 'value' key is missing or
\* a formula
SheetUpdates ==
    SeqsUpTo([cell : {None, Some(""), Some(CellRefs[1]), Some(CellRefs[MaxCells])},
              value : {None, Some("known formula")}],
             MaxUpdates)

\* sheet[cell_ref] = value
SetCell(cells, cell_ref, value) ==
    LET at == CHOOSE i \in 1..Len(CellRefs) : CellRefs[i] = cell_ref
        padded == [i \in 1..(IF at > Len(cells) THEN at ELSE Len(cells)) |->
                      IF i <= Len(cells) THEN cells[i] ELSE "blank"]
    IN  [padded EXCEPT ![at] = IF value = None THEN "blank" ELSE value[1]]

\* "for update in updates" of edit_sheet, from update i on
RECURSIVE SheetLoop(_, _, _, _)
SheetLoop(cells, updates, i, updated_cells) ==
    IF i > Len(updates)
    THEN [ok |-> TRUE, cells |-> cells,
          result |-> [status |-> "success", updated_cells |-> updated_cells,
                      count |-> Len(updated_cells)]]
    ELSE IF ~TruthyStr(updates[i].cell)
    THEN [ok |-> FALSE, cells |-> cells, result |-> ValueError("update without cell")]
    ELSE SheetLoop(SetCell(cells, updates[i].cell[1], updates[i].value),
                   updates, i + 1, Append(updated_cells, updates[i].cell[1]))

\* an edit_sheet that saves the workbook as it is when the loop ends, a
\* loop that was ended by a raise included
edit_sheet_saving_always(workbook, sheet_name, updates) ==
    IF sheet_name \notin SheetNames
    THEN [file |-> workbook, result |-> ValueError("sheet not found")]
    ELSE LET r == SheetLoop(workbook.cells, updates, 1, <<>>)
         IN  [file |-> [exists |-> TRUE, cells |-> r.cells], result |-> r.result]

\* edit_sheet on a workbook that was loaded: the file after the call and
\* the result, which is the error when it raises
edit_sheet(workbook, sheet_name, updates) ==
    IF sheet_name \notin SheetNames
    THEN [file |-> workbook, result |-> ValueError("sheet not found")]
    ELSE LET r == SheetLoop(workbook.cells, updates, 1, <<>>)
         IN  IF r.ok
             THEN [file |-> [exists |-> TRUE, cells |-> r.cells], result |-> r.result]
             ELSE [file |-> workbook, result |-> r.result]

\* "edit" of xlsx_engine.py: load, apply the updates, save
EditSheet ==
    /\ pc = "start"
    /\ \E sheet_name \in SheetNames \cup {"Other"}, updates \in SheetUpdates :
        /\ args' = [command |-> "edit_sheet", sheet |-> sheet_name, updates |-> updates]
        /\ IF ~file.exists
           THEN /\ result' = FileNotFound
                /\ UNCHANGED <<file, before>>
           ELSE IF "cells" \notin DOMAIN file
           THEN /\ result' = InvalidFormat
                /\ UNCHANGED <<file, before>>
           ELSE LET r == edit_sheet(file, sheet_name, updates)
                IN  /\ before' = file
                    /\ file' = r.file
                    /\ result' = r.result
    /\ UNCHANGED visited
    /\ MainPrints(result')
    /\ pc' = "exit"

(***************************************************************************)
(* A mutating invocation on a file: edit of pptx_engine.py, edit of        *)
(* xlsx_engine.py, edit_table_cell or add_table of docx_engine.py.         *)
(***************************************************************************)
InitMutate ==
    /\ file \in PptxFiles \cup XlsxFiles
                \cup {[exists |-> TRUE, body |-> b] : b \in EditBodies}
    /\ before = NoFile
    /\ args = [command |-> "none"]
    /\ result = NotRun
    /\ visited = <<>>
    /\ pc = "start"
    /\ stdout = <<>>
    /\ exit_code = None

SpecMutate ==
    InitMutate /\ [][\/ EditPresentation
                     \/ EditSheet
                     \/ EditTableCell
                     \/ ("body" \in DOMAIN file /\ AddTable)]_vars

\* C22: a mutating command (edit of a presentation, edit of a sheet,
\* edit_table_cell, add_table) that raises after it loaded the file never
\* saves: the file is what was loaded, and the changes the earlier updates
\* of the batch made in memory are not in it.
C22_RaiseNeverSaves ==
    (pc = "exit" /\ before.exists /\ result.status = "error") => file = before

\* an edit of a sheet whose first update changed a cell in memory and whose
\* second update has no 'cell' raised, and the file is the loaded one
C22_Witness ==
    /\ pc = "exit"
    /\ args.command = "edit_sheet"
    /\ before.exists
    /\ result = ValueError("update without cell")
    /\ Len(args.updates) = 2
    /\ TruthyStr(args.updates[1].cell)
    /\ SetCell(before.cells, args.updates[1].cell[1], args.updates[1].value) # before.cells
    /\ file = before

\* C23: the table_index add_table returns is the index, in the list of the
\* tables of the document after the insertion, of the table it added, for
\* every position and every arrangement of paragraphs and tables.
C23_TableIndexIsNewTable ==
    (Inserted /\ args.command = "add_table") =>
        LET tables == DocTables(file.body)
        IN  /\ result.table_index \in 0..(Len(tables) - 1)
            /\ IsPayload(file.body[tables[result.table_index + 1]])

\* the position in the saved body of the block the command made
PayloadAt == CHOOSE j \in 1..Len(file.body) : IsPayload(file.body[j])

\* the saved body without the blocks at the positions from..to
Without(from, to) ==
    SubSeq(file.body, 1, from - 1) \o SubSeq(file.body, to + 1, Len(file.body))

C25_CountedMeansReplaced ==
    Replaced =>
        \A i \in Visits :
            visited[i].added > 0 =>
                /\ visited[i].added = ExpectedCount(ConcatTexts(Orig(i).runs), args.find)
                /\ ParaText(Final(i)) =
                        ExpectedText(ConcatTexts(Orig(i).runs), args.find, args.replace)

\* C26: when edit_presentation succeeds every update of the request was
\* applied: count is the number of updates and updated_items has one entry
\* per update, in the order of the request.
C26_EveryUpdateCounted ==
    EditSucceeded =>
        /\ result.count = Len(args.updates)
        /\ Len(result.updated_items) = Len(args.updates)
        /\ Len(visited) = Len(args.updates)
        /\ \A k \in 1..Len(args.updates) :
            /\ visited[k].update = k
            /\ visited[k].item = Some(result.updated_items[k])
            /\ result.updated_items[k].slide = args.updates[k].slide[1]
            /\ result.updated_items[k].mode = RefMode(args.updates[k])

(***************************************************************************)
(* The split, extract_pages and rotate commands of pdf_engine.py.  In this *)
(* specification visited lists the PDF files the command wrote: the path,  *)
(* the pages of the input each one holds, and their rotations.             *)
(***************************************************************************)
\* a PDF file that was written
Written(path, source, rotate) == [path |-> path, source |-> source, rotate |-> rotate]

\* the 1-based page numbers of a list of page indices
PageNumbers(page_indices) == [i \in 1..Len(page_indices) |-> page_indices[i] + 1]

\* "split" of pdf_engine.py: one file per selected page
SplitPdf ==
    /\ pc = "start"
    /\ \E pages \in PageRanges :
        /\ args' = [command |-> "split", pages |-> pages]
        /\ IF ~file.exists
           THEN Main(Raises(FileNotFound)) /\ UNCHANGED visited
           ELSE LET parsed == parse_page_range(pages, file.pages)
                    numbers == PageNumbers(parsed.pages)
                IN  IF ~parsed.ok
                    THEN Main(Raises(Error("ValueError"))) /\ UNCHANGED visited
                    ELSE /\ Main(Returned([status |-> "success",
                                           created_files |-> numbers,
                                           file_count |-> Len(numbers)]))
                         /\ visited' = [i \in 1..Len(numbers) |->
                                          Written(numbers[i], <<numbers[i]>>,
                                                  <<file.rotate[numbers[i]]>>)]
    /\ before' = file
    /\ UNCHANGED file
    /\ pc' = "exit"

\* "extract_pages" of pdf_engine.py: the selected pages in one file
ExtractPages ==
    /\ pc = "start"
    /\ \E pages \in PageRanges \ {None} :
        /\ args' = [command |-> "extract_pages", pages |-> pages]
        /\ IF ~file.exists
           THEN Main(Raises(FileNotFound)) /\ UNCHANGED visited
           ELSE LET parsed == parse_page_range(pages, file.pages)
                    numbers == PageNumbers(parsed.pages)
                IN  IF ~parsed.ok \/ numbers = <<>>
                    THEN Main(Raises(Error("ValueError"))) /\ UNCHANGED visited
                    ELSE /\ Main(Returned([status |-> "success",
                                           output_path |-> "out.pdf",
                                           pages_extracted |-> Len(numbers),
                                           page_numbers |-> numbers]))
                         /\ visited' = <<Written("out.pdf", numbers,
                                                 [i \in 1..Len(numbers) |->
                                                    file.rotate[numbers[i]]])>>
    /\ before' = file
    /\ UNCHANGED file
    /\ pc' = "exit"

\* a rotate_pdf that writes the selected pages only
rotate_pdf_selected_only(pdf, degrees, pages, output_path) ==
    IF degrees \notin {90, 180, 270} THEN [outcome |-> Raises(Error("ValueError")), written |-> <<>>]
    ELSE IF ~pdf.exists THEN [outcome |-> Raises(FileNotFound), written |-> <<>>]
    ELSE LET parsed == parse_page_range(pages, pdf.pages)
             numbers == PageNumbers(parsed.pages)
         IN  IF ~parsed.ok THEN [outcome |-> Raises(Error("ValueError")), written |-> <<>>]
             ELSE [outcome |-> Returned([status |-> "success",
                                         output_path |-> IF output_path = None THEN "input"
                                                         ELSE output_path[1],
                                         degrees |-> degrees,
                                         rotated_pages |-> numbers]),
                   written |-> <<Written(IF output_path = None THEN "input"
                                         ELSE output_path[1],
                                         numbers,
                                         [i \in 1..Len(numbers) |->
                                            (pdf.rotate[numbers[i]] + degrees) % 360])>>]

\* rotate_pdf: the outcome and the file it wrote; the path "input" is the
\* path of the input file
rotate_pdf(pdf, degrees, pages, output_path) ==
    IF degrees \notin {90, 180, 270} THEN [outcome |-> Raises(Error("ValueError")), written |-> <<>>]
    ELSE IF ~pdf.exists THEN [outcome |-> Raises(FileNotFound), written |-> <<>>]
    ELSE LET parsed == parse_page_range(pages, pdf.pages)
             selected == {parsed.pages[i] : i \in 1..Len(parsed.pages)}
             rotated_pages == Sorted({idx + 1 : idx \in {i \in 0..(pdf.pages - 1) : i \in selected}})
         IN  IF ~parsed.ok THEN [outcome |-> Raises(Error("ValueError")), written |-> <<>>]
             ELSE [outcome |-> Returned([status |-> "success",
                                         output_path |-> IF output_path = None THEN "input"
                                                         ELSE output_path[1],
                                         degrees |-> degrees,
                                         rotated_pages |-> rotated_pages]),
                   written |-> <<Written(IF output_path = None THEN "input"
                                         ELSE output_path[1],
                                         [i \in 1..pdf.pages |-> i],
                                         [i \in 1..pdf.pages |->
                                            IF i - 1 \in selected
                                            THEN (pdf.rotate[i] + degrees) % 360
                                            ELSE pdf.rotate[i]])>>]

\* "rotate" of pdf_engine.py; without --output the input file is written
RotatePdf ==
    /\ pc = "start"
    /\ \E degrees \in {0, 45, 90, 180, 270}, pages \in PageRanges,
          output_path \in {None, Some("out.pdf")} :
        /\ args' = [command |-> "rotate", degrees |-> degrees, pages |-> pages,
                    output |-> output_path]
        /\ LET r == rotate_pdf(file, degrees, pages, output_path)
           IN  /\ Main(r.outcome)
               /\ visited' = r.written
               /\ file' = IF r.written # <<>> /\ output_path = None
                          THEN [exists |-> TRUE, pages |-> Len(r.written[1].source),
                                rotate |-> r.written[1].rotate]
                          ELSE file
    /\ before' = file
    /\ pc' = "exit"

(***************************************************************************)
(* A split, extract_pages or rotate invocation on a PDF file.              *)
(***************************************************************************)
InitPdf ==
    /\ file \in PdfFiles
    /\ before = NoFile
    /\ args = [command |-> "none"]
    /\ result = NotRun
    /\ visited = <<>>
    /\ pc = "start"
    /\ stdout = <<>>
    /\ exit_code = None

SpecPdf == InitPdf /\ [][SplitPdf \/ ExtractPages \/ RotatePdf]_vars

(***************************************************************************)
(* Statements about the page ranges and the PDF commands.                  *)
(***************************************************************************)
\* the range strings of comma-separated 1-based numbers and a-b ranges
\* among PageRanges, each with the page numbers it asks for
RangeMeanings ==
    {[range |-> <<"1">>, pages |-> {1}],
     [range |-> <<"2", "-", "3">>, pages |-> {2, 3}],
     [range |-> <<"1", ",", "3">>, pages |-> {1, 3}],
     [range |-> <<"3", "-", "1">>, pages |-> {}],
     [range |-> <<"9">>, pages |-> {9}],
     [range |-> <<" ", "2", " ", ",", " ", "1">>, pages |-> {1, 2}],
     [range |-> <<"1", "-", "2", ",", "2", "-", "3">>, pages |-> {1, 2, 3}],
     [range |-> <<"0", ",", "2">>, pages |-> {0, 2}]}

\* a split command ran on an existing file
SplitRan == pc = "exit" /\ args.command = "split" /\ before.exists

\* C27: for a range string of comma-separated 1-based numbers and a-b
\* ranges and any number of pages, parse_page_range gives a strictly
\* ascending list without duplicates of 0-based indices within
\* [0, total_pages) that holds exactly the requested pages that exist; an
\* empty or missing range gives all pages and a reversed range gives no
\* page.  split writes one file per index and lists them as created_files
\* with the page number index + 1, so the list is read from there.
C27_ParsePageRange ==
    SplitRan =>
        LET total_pages == before.pages
            indices == [i \in 1..Len(result.created_files) |-> result.created_files[i] - 1]
        IN  /\ (args.pages \in {None, Some(<<>>)}
                    \/ \E m \in RangeMeanings : args.pages = Some(m.range))
                => result.status = "success"
            /\ result.status = "success" =>
                /\ \A i \in 1..(Len(indices) - 1) : indices[i] < indices[i + 1]
                /\ \A i \in 1..Len(indices) : 0 <= indices[i] /\ indices[i] < total_pages
                /\ args.pages \in {None, Some(<<>>)} =>
                        indices = [i \in 1..total_pages |-> i - 1]
                /\ \A m \in RangeMeanings :
                        args.pages = Some(m.range) =>
                            {indices[i] : i \in 1..Len(indices)}
                                = {n - 1 : n \in m.pages \cap (1..total_pages)}
                /\ args.pages = Some(<<"3", "-", "1">>) => indices = <<>>

\* the range "1-2,2-3" names page 2 twice and, on a file of two pages, a
\* page that does not exist: the list is 0, 1
C27_Witness ==
    /\ SplitRan
    /\ args.pages = Some(<<"1", "-", "2", ",", "2", "-", "3">>)
    /\ before.pages = 2
    /\ result.status = "success"
    /\ result.created_files = <<1, 2>>

\* C28: pdf_to_images renders exactly the pages the page range selects,
\* the pages split_pdf and extract_pages select for the same range: for a
\* range with a gap only the pages it names are converted.
C28_RendersSelectedPages ==
    (pc = "exit" /\ args.command = "to_images" /\ before.exists
        /\ result.status = "success") =>
        result.created_files
            = PageNumbers(parse_page_range(args.pages, before.pages).pages)

\* C29: rotate_pdf writes every page of the input in the original order,
\* turns by the given degrees exactly the pages whose index is in the parsed
\* page range and leaves the others as they are, reports exactly those
\* pages as rotated_pages, and rejects degrees other than 90, 180 and 270
\* before it reads or writes a file.
C29_RotateSelectedPages ==
    (pc = "exit" /\ args.command = "rotate") =>
        /\ args.degrees \notin {90, 180, 270} =>
                /\ result = Error("ValueError")
                /\ exit_code = Some(1)
                /\ visited = <<>>
                /\ file = before
        /\ result.status = "success" =>
                LET n == before.pages
                    parsed == parse_page_range(args.pages, n).pages
                    selected == {parsed[i] + 1 : i \in 1..Len(parsed)}
                IN  /\ args.degrees \in {90, 180, 270}
                    /\ Len(visited) = 1
                    /\ visited[1].source = [i \in 1..n |-> i]
                    /\ \A i \in 1..n :
                        visited[1].rotate[i] =
                            IF i \in selected
                            THEN (before.rotate[i] + args.degrees) % 360
                            ELSE before.rotate[i]
                    /\ result.rotated_pages = PageNumbers(parsed)
                    /\ IF args.output = None
                       THEN file = [exists |-> TRUE, pages |-> n,
                                    rotate |-> visited[1].rotate]
                       ELSE file = before /\ visited[1].path = args.output[1]

\* pages 1 and 3 of a file of three pages were turned, page 2 was written
\* as it was
C29_Witness ==
    /\ pc = "exit"
    /\ args.command = "rotate"
    /\ args.pages = Some(<<"1", ",", "3">>)
    /\ args.degrees = 90
    /\ before.exists
    /\ before.pages = 3
    /\ result.status = "success"
    /\ result.rotated_pages = <<1, 3>>
    /\ visited[1].rotate[1] # before.rotate[1]
    /\ visited[1].rotate[2] = before.rotate[2]
    /\ visited[1].rotate[3] # before.rotate[3]

(***************************************************************************)
(* The commands that read: read, read_tables and info of docx_engine.py,   *)
(* read and layouts of pptx_engine.py, read, check_errors and recalculate  *)
(* of xlsx_engine.py.  Commands run one after the other on the same file.  *)
(***************************************************************************)
\* the entry of a table in the result of read_document and read_tables;
\* the cells of the documents hold one paragraph
TableInfo(table, index) ==
    [index |-> index,
     rows |-> Len(table.rows),
     cols |-> Len(table.rows[1]),
     data |-> [r \in 1..Len(table.rows) |->
                 [c \in 1..Len(table.rows[r]) |-> ParaText(table.rows[r][c][1])]]]

\* "read" of docx_engine.py
ReadDocument ==
    /\ pc = "start"
    /\ ~file.exists \/ "body" \in DOMAIN file
    /\ \E include_tables \in BOOLEAN :
        /\ args' = [command |-> "read_document", include_tables |-> include_tables]
        /\ IF ~file.exists THEN Main(Raises(FileNotFound))
           ELSE LET paragraphs == DocParagraphs(file.body)
                    tables == DocTables(file.body)
                    counts == [paragraph_count |-> Len(paragraphs),
                               table_count |-> Len(tables),
                               paragraphs |->
                                   [i \in 1..Len(paragraphs) |->
                                       [index |-> i - 1,
                                        text |-> ParaText(file.body[paragraphs[i]]),
                                        style |-> file.body[paragraphs[i]].style]]]
                    table_data == [i \in 1..Len(tables) |->
                                      TableInfo(file.body[tables[i]], i - 1)]
                IN  IF include_tables
                    THEN Main(Returned([paragraph_count |-> counts.paragraph_count,
                                        table_count |-> counts.table_count,
                                        paragraphs |-> counts.paragraphs,
                                        tables |-> table_data]))
                    ELSE Main(Returned(counts))
    /\ before' = file
    /\ UNCHANGED <<file, visited>>
    /\ pc' = "exit"

\* "read_tables" of docx_engine.py
ReadTables ==
    /\ pc = "start"
    /\ ~file.exists \/ "body" \in DOMAIN file
    /\ \E table_index \in {None} \cup {Some(n) : n \in -1..2} :
        /\ args' = [command |-> "read_tables", table_index |-> table_index]
        /\ IF ~file.exists THEN Main(Raises(FileNotFound))
           ELSE LET tables == DocTables(file.body)
                IN  IF tables = <<>>
                    THEN Main(Returned([table_count |-> 0, tables |-> <<>>]))
                    ELSE IF table_index = None
                    THEN Main(Returned([table_count |-> Len(tables),
                                        tables |-> [i \in 1..Len(tables) |->
                                            TableInfo(file.body[tables[i]], i - 1)]]))
                    ELSE IF table_index[1] < 0 \/ table_index[1] >= Len(tables)
                    THEN Main(Raises(ValueError("table index out of range")))
                    ELSE Main(Returned([table_count |-> Len(tables),
                                        tables |-> <<TableInfo(
                                            file.body[tables[table_index[1] + 1]],
                                            table_index[1])>>]))
    /\ before' = file
    /\ UNCHANGED <<file, visited>>
    /\ pc' = "exit"

\* "info" of docx_engine.py; the core properties are not part of the
\* documents.  A word starts at a character that is no space and follows a
\* space or starts the text.
DocumentInfo ==
    /\ pc = "start"
    /\ ~file.exists \/ "body" \in DOMAIN file
    /\ args' = [command |-> "document_info"]
    /\ IF ~file.exists THEN Main(Raises(FileNotFound))
       ELSE LET paragraphs == DocParagraphs(file.body)
                Text(p) == ParaText(file.body[paragraphs[p]])
                WordStarts(p) ==
                    {<<p, i>> : i \in {j \in 1..Len(Text(p)) :
                        Text(p)[j] # " " /\ (j = 1 \/ Text(p)[j - 1] = " ")}}
            IN  Main(Returned([paragraph_count |-> Len(paragraphs),
                               table_count |-> Len(DocTables(file.body)),
                               word_count |-> Cardinality(
                                   UNION {WordStarts(p) : p \in 1..Len(paragraphs)})]))
    /\ before' = file
    /\ UNCHANGED <<file, visited>>
    /\ pc' = "exit"

\* "read" of pptx_engine.py
ReadPresentation ==
    /\ pc = "start"
    /\ ~file.exists \/ "slides" \in DOMAIN file
    /\ \E slide_number \in {None} \cup {Some(n) : n \in 0..3} :
        /\ args' = [command |-> "read_presentation", slide_number |-> slide_number]
        /\ IF ~file.exists THEN Main(Raises(FileNotFound))
           ELSE LET SlideData(n) ==
                        [slide_number |-> n,
                         shapes |-> [k \in 1..Len(file.slides[n].shapes) |->
                            [shape_index |-> k - 1,
                             name |-> file.slides[n].shapes[k].name,
                             full_text |-> IF file.slides[n].shapes[k].has_text_frame
                                           THEN Some(file.slides[n].shapes[k].text)
                                           ELSE None,
                             top |-> file.slides[n].shapes[k].top]],
                         notes |-> IF TruthyStr(file.slides[n].notes)
                                   THEN file.slides[n].notes ELSE None]
                IN  IF slide_number = None
                    THEN Main(Returned([total_slides |-> Len(file.slides),
                                        slides |-> [n \in 1..Len(file.slides) |->
                                                        SlideData(n)]]))
                    ELSE IF slide_number[1] < 1 \/ slide_number[1] > Len(file.slides)
                    THEN Main(Raises(ValueError("slide number out of range")))
                    ELSE Main(Returned([total_slides |-> Len(file.slides),
                                        slides |-> <<SlideData(slide_number[1])>>]))
    /\ before' = file
    /\ UNCHANGED <<file, visited>>
    /\ pc' = "exit"

\* "layouts" of pptx_engine.py; the layouts are those of the template and
\* are not part of the presentations
GetLayouts ==
    /\ pc = "start"
    /\ ~file.exists \/ "slides" \in DOMAIN file
    /\ args' = [command |-> "get_layouts"]
    /\ IF ~file.exists THEN Main(Raises(FileNotFound))
       ELSE Main(Returned([total_layouts |-> 2,
                           layouts |-> <<[index |-> 0, name |-> "Title Slide"],
                                         [index |-> 1, name |-> "Title and Content"]>>]))
    /\ before' = file
    /\ UNCHANGED <<file, visited>>
    /\ pc' = "exit"

\* the entries of the cells of the sheet that hold something
CellData(cells) ==
    SelectSeq([i \in 1..Len(cells) |->
                  [cell |-> CellRefs[i], value |-> cells[i],
                   formula |-> cells[i] \in {"known formula", "unknown formula"}]],
              LAMBDA c : c.value # "blank")

\* "read" of xlsx_engine.py
ReadSheet ==
    /\ pc = "start"
    /\ ~file.exists \/ "cells" \in DOMAIN file
    /\ \E sheet_name \in {None} \cup {Some(n) : n \in SheetNames \cup {"Other"}} :
        /\ args' = [command |-> "read_sheet", sheet |-> sheet_name]
        /\ IF ~file.exists THEN Main(Raises(FileNotFound))
           ELSE IF sheet_name # None /\ sheet_name[1] \notin SheetNames
           THEN Main(Raises(ValueError("sheet not found")))
           ELSE Main(Returned([sheet_name |-> "Sheet1", cells |-> CellData(file.cells)]))
    /\ before' = file
    /\ UNCHANGED <<file, visited>>
    /\ pc' = "exit"

\* "check_errors" of xlsx_engine.py
CheckErrors ==
    /\ pc = "start"
    /\ ~file.exists \/ "cells" \in DOMAIN file
    /\ args' = [command |-> "check_errors"]
    /\ IF ~file.exists THEN Main(Raises(FileNotFound))
       ELSE LET found == SelectSeq(CellData(file.cells),
                                   LAMBDA c : c.value = "error value")
                errors == [i \in 1..Len(found) |->
                              [sheet |-> "Sheet1", cell |-> found[i].cell,
                               error |-> found[i].value, formula |-> None]]
            IN  Main(Returned([errors_found |-> Len(errors), errors |-> errors]))
    /\ before' = file
    /\ UNCHANGED <<file, visited>>
    /\ pc' = "exit"

\* the next command is started on the file
NextCommand ==
    /\ pc = "exit"
    /\ Len(stdout) < MaxCommands
    /\ pc' = "start"
    /\ exit_code' = None
    /\ UNCHANGED <<file, before, args, result, visited, stdout>>

(***************************************************************************)
(* A sequence of reading commands on a file.                               *)
(***************************************************************************)
InitRead ==
    /\ file \in PptxFiles \cup XlsxFiles
                \cup {[exists |-> TRUE, body |-> b] : b \in EditBodies}
                \cup {[exists |-> TRUE,
                       cells |-> <<"error value", "known formula", "blank">>]}
    /\ before = NoFile
    /\ args = [command |-> "none"]
    /\ result = NotRun
    /\ visited = <<>>
    /\ pc = "start"
    /\ stdout = <<>>
    /\ exit_code = None

SpecRead ==
    InitRead /\ [][\/ ReadDocument \/ ReadTables \/ DocumentInfo
                   \/ ReadPresentation \/ GetLayouts
                   \/ ReadSheet \/ CheckErrors
                   \/ ((~file.exists \/ "cells" \in DOMAIN file) /\ XlsxRecalculate)
                   \/ NextCommand]_vars

====
